---- MODULE Spec2Model ----
(***************************************************************************)
(* Clip lifecycle of clipforge: the clips and cursors tables of the        *)
(* SQLite store, the discovery orchestrator, the five stage entry points   *)
(* (download, transcribe, decide, render, package) and the top-N           *)
(* selection, translated from the Python sources.                          *)
(***************************************************************************)
EXTENDS Integers, Sequences, FiniteSets, TLC

VARIABLES
    env,        \* the outside world: what each channel serves, what the LLM scores
    clips,      \* the clips table: sequence of rows, row id = position (AUTOINCREMENT)
    cursors,    \* the cursors table: creator -> last_fetched_at (Null = no row)
    now,        \* the wall clock read by datetime('now')
    last,       \* the last entry-point call: what it selected, returned and called
    workers,    \* stage invocations in flight between their SELECT and their UPDATE
    fin,        \* arguments of the last discover_clips_for_creator call
    fout,       \* the list that call returned
    run         \* the run_pipeline execution in progress: its step and its batch

vars == <<env, clips, cursors, now, last, workers, fin, fout, run>>

(***************************************************************************)
(* Bounds of the model.                                                    *)
(***************************************************************************)
MaxTime == 2          \* clip timestamps range over 1..MaxTime
MaxNow == 1           \* the clock ranges over 0..MaxNow
MaxPerCreator == 2    \* max_per_creator ranges over 1..MaxPerCreator
MaxTopN == 1          \* top_n ranges over 0..MaxTopN
MaxRows == 3          \* rows the clips table may hold
MaxScore == 11        \* the viral_score of an LLM verdict ranges over 0..MaxScore

None == "None"        \* SQL NULL, Python None in a text column
Null == -99           \* SQL NULL, Python None in a timestamp or integer column
Empty == 0            \* created_at = "" (ClipMeta default)
Bad == -1             \* a created_at that datetime.fromisoformat rejects
Times == 1..MaxTime

(***************************************************************************)
(* schemas.py                                                              *)
(***************************************************************************)
ClipStatus == {"DISCOVERED", "DOWNLOADED", "TRANSCRIBED", "DECIDED",
               "RENDERED", "PACKAGED", "FAILED"}

VALID_TRANSITIONS(s) ==
    CASE s = "DISCOVERED"  -> {"DOWNLOADED", "FAILED"}
      [] s = "DOWNLOADED"  -> {"TRANSCRIBED", "FAILED"}
      [] s = "TRANSCRIBED" -> {"DECIDED", "FAILED"}
      [] s = "DECIDED"     -> {"RENDERED", "FAILED"}
      [] s = "RENDERED"    -> {"PACKAGED", "FAILED"}
      [] s = "PACKAGED"    -> {}
      [] s = "FAILED"      -> {}

(***************************************************************************)
(* The seeded profiles, creators and their links (profiles, creators,      *)
(* profile_creators tables).  Creator kc is linked to both profiles.       *)
(***************************************************************************)
Profiles == {"p1", "p2"}
Creators == {"kc", "tc"}
PlatformOf(c) == IF c = "kc" THEN "kick" ELSE "twitch"
EnabledCreators(p) == IF p = "p1" THEN <<"kc", "tc">> ELSE <<"kc">>

\* What the platforms can serve for a channel: ClipMeta(platform, clip_id, created_at).
Meta(pf, id, ca) == [platform |-> pf, clip_id |-> id, created_at |-> ca]
\* one clip per channel; the two clips share their clip_id across platforms
OneClipChannels ==
    [c \in Creators |->
        IF c = "kc" THEN {Meta("kick", "a", 1)} ELSE {Meta("twitch", "a", 2)}]
\* a channel with clips at two different times
TwoClipChannels ==
    [c \in Creators |->
        IF c = "kc" THEN {Meta("kick", "a", 1), Meta("kick", "b", MaxTime)}
                    ELSE {Meta("twitch", "a", MaxTime)}]
\* one channel with one clip
SingleClipChannels ==
    [c \in Creators |-> IF c = "kc" THEN {Meta("kick", "a", 1)} ELSE {}]

\* Lists without repetition of at most two elements of S.
ListsOf(S) ==
    {<<>>} \cup {<<x>> : x \in S}
           \cup {<<p[1], p[2]>> : p \in {q \in S \X S : q[1] # q[2]}}

Take(s, n) == SubSeq(s, 1, IF n < Len(s) THEN n ELSE Len(s))

(***************************************************************************)
(* discovery/kick_api.py, kick_api.py, discovery/twitch_api.py             *)
(***************************************************************************)
\* datetime.fromisoformat(x.replace("Z", "+00:00")) raises ValueError on x
IsoRaises(x) == x \notin Times

\* kick: the cursor filter applied to one fetched clip
\* (a clip is kept when it has no created_at and when a timestamp does not parse)
KickKeep(clip, last_fetched_at) ==
    IF last_fetched_at = Null THEN TRUE
    ELSE IF clip.created_at = Empty THEN TRUE
    ELSE IF IsoRaises(clip.created_at) \/ IsoRaises(last_fetched_at) THEN TRUE
    ELSE clip.created_at > last_fetched_at

RECURSIVE KickFilter(_, _)
KickFilter(all_clips, last_fetched_at) ==
    IF all_clips = <<>> THEN <<>>
    ELSE (IF KickKeep(Head(all_clips), last_fetched_at)
            THEN <<Head(all_clips)>> ELSE <<>>)
         \o KickFilter(Tail(all_clips), last_fetched_at)

\* discovery/kick_api.py: fetch everything, filter by cursor, truncate
kick_discover_clips_for_creator(all_clips, last_fetched_at, max_clips) ==
    Take(KickFilter(all_clips, last_fetched_at), max_clips)

\* kick_api.py (unofficial v2 endpoint): a fetched clip is skipped only when
\* both timestamps parse and the clip is at or before the cursor
KickV2Keep(clip, last_fetched_at) ==
    IF last_fetched_at # Null /\ clip.created_at # Empty
    THEN IF IsoRaises(clip.created_at) \/ IsoRaises(last_fetched_at) THEN TRUE
         ELSE ~(clip.created_at <= last_fetched_at)
    ELSE TRUE

RECURSIVE KickV2Filter(_, _)
KickV2Filter(batch, last_fetched_at) ==
    IF batch = <<>> THEN <<>>
    ELSE (IF KickV2Keep(Head(batch), last_fetched_at)
            THEN <<Head(batch)>> ELSE <<>>)
         \o KickV2Filter(Tail(batch), last_fetched_at)

\* kick_api.py: pages are filtered while they are collected, then truncated
\* (one page holds the whole channel list)
kick_v2_discover_clips_for_creator(batch, last_fetched_at, max_clips) ==
    Take(KickV2Filter(batch, last_fetched_at), max_clips)

\* The Helix /clips endpoint given started_at: it serves the clips created at
\* or after started_at; the client passes the cursor as started_at.
RECURSIVE HelixServe(_, _)
HelixServe(channel, started_at) ==
    IF channel = <<>> THEN <<>>
    ELSE (IF Head(channel).created_at \in Times /\ started_at \in Times
             /\ Head(channel).created_at < started_at
            THEN <<>> ELSE <<Head(channel)>>)
         \o HelixServe(Tail(channel), started_at)

\* discovery/twitch_api.py: started_at = cursor or the 24h cutoff, pages are
\* collected until max_clips, no filter on the client
twitch_discover_clips_for_creator(channel, last_fetched_at, cutoff, max_clips) ==
    LET started_at == IF last_fetched_at = Null THEN cutoff ELSE last_fetched_at
    IN  Take(HelixServe(channel, started_at), max_clips)

(***************************************************************************)
(* db/database.py: the clips table                                         *)
(***************************************************************************)
PathKeys == {"source", "transcript", "edit_decision", "rendered", "publish_pack"}

\* the row INSERT writes: status DISCOVERED, the column defaults elsewhere;
\* created_at (DEFAULT datetime('now')) is read only by the batch SELECTs of
\* run_pipeline and is kept at 0 where env says nothing reads it
NewRow(clip, creator_id, profile_id, t) ==
    [platform |-> clip.platform, clip_id |-> clip.clip_id,
     creator_id |-> creator_id, profile_id |-> profile_id,
     status |-> "DISCOVERED", viral_score |-> Null, fail_reason |-> None,
     paths |-> {}, meta_created_at |-> clip.created_at,
     created_at |-> IF env.created_at_read THEN t ELSE 0, updated_at |-> t]

\* a variant: uniqueness per profile, UNIQUE(platform, clip_id, profile_id)
UniqueConflictPerProfile(rows, row) ==
    \E i \in 1..Len(rows) :
        /\ rows[i].platform = row.platform /\ rows[i].clip_id = row.clip_id
        /\ rows[i].profile_id = row.profile_id

\* UNIQUE(platform, clip_id): does row conflict with a stored row
UniqueConflict(rows, row) ==
    \E i \in 1..Len(rows) :
        rows[i].platform = row.platform /\ rows[i].clip_id = row.clip_id

\* INSERT OR IGNORE INTO clips
InsertOrIgnore(rows, row) ==
    IF UniqueConflict(rows, row) THEN rows ELSE Append(rows, row)

(***************************************************************************)
(* discovery/discover.py                                                   *)
(***************************************************************************)
\* line 99: db.execute("INSERT OR IGNORE INTO clips ...") is not SQL; sqlite3
\* raises OperationalError, which the except of line 115 swallows, so the
\* rest of the try body (lines 100-113) is skipped for every clip
ProbeInsertRaises == TRUE

\* lines 111-113: track the newest clip time for the cursor
RecordNewest(newest_time, created_at) ==
    IF created_at # Empty /\ (newest_time = Null \/ created_at > newest_time)
    THEN created_at ELSE newest_time

\* lines 85-116: the loop over the fetched clips; gives the rows and newest_time
RECURSIVE InsertClips(_, _, _, _, _, _)
InsertClips(batch, rows, newest_time, creator_id, profile_id, t) ==
    IF batch = <<>> THEN [rows |-> rows, newest_time |-> newest_time]
    ELSE LET clip == Head(batch)
             rows2 == InsertOrIgnore(rows, NewRow(clip, creator_id, profile_id, t))
             newest2 == IF ProbeInsertRaises THEN newest_time
                        ELSE RecordNewest(newest_time, clip.created_at)
         IN  InsertClips(Tail(batch), rows2, newest2, creator_id, profile_id, t)

\* lines 57-77: the platform fetch; fetched.clips is what the platform holds,
\* fetched.raised an exception escaping the client (clips stays [])
FetchFor(creator, fetched, last_fetched, cutoff, per_creator_max) ==
    IF fetched.raised THEN <<>>
    ELSE IF PlatformOf(creator) = "twitch"
         THEN twitch_discover_clips_for_creator(fetched.clips, last_fetched, cutoff, per_creator_max)
         ELSE kick_discover_clips_for_creator(fetched.clips, last_fetched, per_creator_max)

\* a variant: the upsert stores the earliest time instead of newest_time
UpdateCursorEarliest(cur, creator_id, newest_time) ==
    IF newest_time # Null THEN [cur EXCEPT ![creator_id] = 1] ELSE cur

\* lines 118-126: the cursor upsert
UpdateCursor(cur, creator_id, newest_time) ==
    IF newest_time # Null THEN [cur EXCEPT ![creator_id] = newest_time] ELSE cur

\* the INSERT of lines 87-98 as an entry of calls: its platform and clip_id
InsertCall(clip) == "insert:" \o clip.platform \o ":" \o clip.clip_id

\* a variant: a fetch that gives nothing ends the loop over the creators
RECURSIVE DiscoverCreatorsStopOnEmpty(_, _, _, _, _, _, _, _, _)
DiscoverCreatorsStopOnEmpty(cs, rows, cur, calls, profile_id, per_creator_max, F, cutoff, t) ==
    IF cs = <<>> THEN [rows |-> rows, cursors |-> cur, calls |-> calls]
    ELSE LET creator_id == Head(cs)
             last_fetched == cur[creator_id]
             batch == FetchFor(creator_id, F[creator_id], last_fetched, cutoff, per_creator_max)
             r == InsertClips(batch, rows, last_fetched, creator_id, profile_id, t)
             calls2 == calls \o [i \in 1..Len(batch) |-> InsertCall(batch[i])]
         IN  IF batch = <<>>
             THEN [rows |-> rows, cursors |-> cur, calls |-> calls]
             ELSE DiscoverCreatorsStopOnEmpty(Tail(cs), r.rows,
                                   UpdateCursor(cur, creator_id, r.newest_time), calls2,
                                   profile_id, per_creator_max, F, cutoff, t)

\* lines 43-132: the loop over the enabled creators; calls lists the INSERT
\* executed for every fetched clip, in order
RECURSIVE DiscoverCreators(_, _, _, _, _, _, _, _, _)
DiscoverCreators(cs, rows, cur, calls, profile_id, per_creator_max, F, cutoff, t) ==
    IF cs = <<>> THEN [rows |-> rows, cursors |-> cur, calls |-> calls]
    ELSE LET creator_id == Head(cs)
             last_fetched == cur[creator_id]
             batch == FetchFor(creator_id, F[creator_id], last_fetched, cutoff, per_creator_max)
             r == InsertClips(batch, rows, last_fetched, creator_id, profile_id, t)
             calls2 == calls \o [i \in 1..Len(batch) |-> InsertCall(batch[i])]
         IN  IF batch = <<>>
             THEN DiscoverCreators(Tail(cs), rows, cur, calls2, profile_id,
                                   per_creator_max, F, cutoff, t)
             ELSE DiscoverCreators(Tail(cs), r.rows,
                                   UpdateCursor(cur, creator_id, r.newest_time), calls2,
                                   profile_id, per_creator_max, F, cutoff, t)

FetchOutcomes(c) ==
    {[raised |-> FALSE, clips |-> l] : l \in ListsOf(env.channels[c])}
        \cup {[raised |-> TRUE, clips |-> <<>>]}

\* last: sel is what the SELECT of the call found ("match", "wrong_status",
\* "no_row"; "n/a" for calls that take no row id), ret the value returned
\* ("raised" for an exception), calls the external calls made, in order
NoCall == [sel |-> "n/a", ret |-> "n/a", calls |-> <<>>]

\* the inputs of one call: what each enabled creator's fetch gives, and the
\* 24h cutoff when a Twitch creator without cursor is fetched
Raised == [raised |-> TRUE, clips |-> <<>>]
IsEnabled(c, p) == \E i \in 1..Len(EnabledCreators(p)) : EnabledCreators(p)[i] = c
FetchInputs(p) ==
    {F \in [Creators -> UNION {FetchOutcomes(c) : c \in Creators}] :
        \A c \in Creators :
            IF IsEnabled(c, p) THEN F[c] \in FetchOutcomes(c) ELSE F[c] = Raised}
CutoffInputs(p, F) ==
    IF \E c \in Creators :
           /\ IsEnabled(c, p) /\ PlatformOf(c) = "twitch"
           /\ cursors[c] = Null /\ F[c].clips # <<>>
    THEN Times ELSE {1}

\* max_per_creator only matters when a fetch gives more clips than it
MaxInputs(F) ==
    {m \in 1..MaxPerCreator :
        m = MaxPerCreator \/ \E c \in Creators : Len(F[c].clips) > m}

\* what one call of discover_for_profile on the given inputs does to the store
DiscoverEffect(profile_slug, max_per_creator, F, cutoff) ==
    LET r == DiscoverCreators(EnabledCreators(profile_slug), clips, cursors, <<>>,
                              profile_slug, max_per_creator, F, cutoff, now)
    IN  /\ Len(r.rows) <= MaxRows
        /\ clips' = r.rows
        /\ cursors' = r.cursors
        /\ last' = [sel |-> "n/a", ret |-> "list", calls |-> r.calls]

\* one call of discover_for_profile on the given inputs
DiscoverStep(profile_slug, max_per_creator, F, cutoff) ==
    /\ DiscoverEffect(profile_slug, max_per_creator, F, cutoff)
    /\ UNCHANGED <<env, now, workers, fin, fout, run>>

discover_for_profile(profile_slug) ==
    \E F \in FetchInputs(profile_slug) :
    \E cutoff \in CutoffInputs(profile_slug, F) :
    \E max_per_creator \in MaxInputs(F) :
        DiscoverStep(profile_slug, max_per_creator, F, cutoff)

(***************************************************************************)
(* The stage entry points.  Each one SELECTs the row by id and expected    *)
(* status, performs its side effect and UPDATEs the row by id alone.  The  *)
(* part after the SELECT is an operator of the rows as they are when the   *)
(* UPDATE runs and of the paths read by the SELECT.                        *)
(***************************************************************************)
\* a variant: SELECT * FROM clips WHERE id = ?, without the status test
SelectRowAnyStatus(rows, id, st) == id \in 1..Len(rows)

\* SELECT * FROM clips WHERE id = ? AND status = ?
SelectRow(rows, id, st) == id \in 1..Len(rows) /\ rows[id].status = st

SelKind(rows, id, st) ==
    IF SelectRow(rows, id, st) THEN "match"
    ELSE IF id \in 1..Len(rows) THEN "wrong_status" ELSE "no_row"

\* a variant: the UPDATE sets the status and leaves fail_reason alone
SetFailedNoReason(rows, id, reason, t) ==
    IF id \in 1..Len(rows)
    THEN [rows EXCEPT ![id].status = "FAILED", ![id].updated_at = t]
    ELSE rows

\* UPDATE clips SET status = 'FAILED', fail_reason = ?, updated_at = now WHERE id = ?
SetFailed(rows, id, reason, t) ==
    IF id \in 1..Len(rows)
    THEN [rows EXCEPT ![id].status = "FAILED", ![id].fail_reason = reason,
                      ![id].updated_at = t]
    ELSE rows

\* UPDATE clips SET status = ?, paths_json = ?, updated_at = now WHERE id = ?
SetStatusPaths(rows, id, st, paths, t) ==
    IF id \in 1..Len(rows)
    THEN [rows EXCEPT ![id].status = st, ![id].paths = paths, ![id].updated_at = t]
    ELSE rows

Result(rows, ret, calls) == [rows |-> rows, ret |-> ret, calls |-> calls]

\* ---- downloader.py: download_clip, lines 87-123 ----
DownloadOutcomes == [path_ok : BOOLEAN]

\* a variant: the success branch stores the paths as they were read
download_finish_paths_kept(rows, id, paths, o, t) ==
    IF o.path_ok
    THEN Result(SetStatusPaths(rows, id, "DOWNLOADED", paths, t), "True", <<"download">>)
    ELSE Result(SetFailed(rows, id, "download_failed", t), "False", <<"download">>)

download_finish(rows, id, paths, o, t) ==
    IF o.path_ok
    THEN Result(SetStatusPaths(rows, id, "DOWNLOADED", paths \cup {"source"}, t),
                "True", <<"download">>)
    ELSE Result(SetFailed(rows, id, "download_failed", t), "False", <<"download">>)

\* ---- transcribe/transcriber.py: transcribe_clip, lines 152-219 ----
\* what run_quality_gates returns for the transcript produced
GateResults == {<<TRUE, "">>, <<FALSE, "no_speech_detected">>}
ErrTexts == {""}      \* str(e) of the exception caught

\* the inputs of one call; an input the code does not get to read is left
\* at its first value
TranscribeOutcomes ==
    {o \in [source_exists : BOOLEAN, raises : BOOLEAN, e : ErrTexts, gate : GateResults] :
        /\ ~o.source_exists => ~o.raises
        /\ (~o.source_exists \/ o.raises) => o.gate = <<TRUE, "">>}

transcribe_finish(rows, id, paths, o, t) ==
    IF "source" \notin paths \/ ~o.source_exists
    THEN Result(SetFailed(rows, id, "source_missing", t), "False", <<>>)
    ELSE IF o.raises
    THEN Result(SetFailed(rows, id, "transcription_error:" \o o.e, t),
                "False", <<"transcribe">>)
    ELSE LET paths2 == paths \cup {"transcript"}
         IN  IF o.gate[1]
             THEN Result(SetStatusPaths(rows, id, "TRANSCRIBED", paths2, t),
                         "True", <<"transcribe">>)
             ELSE Result([SetFailed(rows, id, o.gate[2], t) EXCEPT ![id].paths = paths2],
                         "False", <<"transcribe">>)

\* ---- decide/decider.py: decide_clip, lines 256-366 ----
LLMFlags == env.llm_flags   \* content_flag values the LLM returns
PreFilterResults == {<<TRUE, "">>, <<FALSE, "hard_reject:slur_detected">>}

\* call_llm_api: None on any failure, else the parsed JSON
LLMResponses ==
    [ok : BOOLEAN, content_safe : BOOLEAN, content_flag : LLMFlags,
     viral_score : env.llm_scores]

LLMNone == [ok |-> FALSE, content_safe |-> TRUE, content_flag |-> "", viral_score |-> 3]

DecideOutcomes ==
    {o \in [transcript_exists : BOOLEAN, prefilter : PreFilterResults,
            llm_resp : LLMResponses \cup {LLMNone}, ed_raises : BOOLEAN, e : ErrTexts] :
        /\ ~o.transcript_exists => o.prefilter[1]
        /\ (~o.transcript_exists \/ ~o.prefilter[1]) => o.llm_resp = LLMNone
        /\ ~o.llm_resp.ok => o.llm_resp = LLMNone
        /\ (~o.llm_resp.ok \/ ~o.llm_resp.content_safe \/ o.llm_resp.viral_score < 3)
              => ~o.ed_raises}

\* a variant: the LLM is asked before the pre-filter is looked at
decide_finish_llm_first(rows, id, paths, o, t) ==
    IF "transcript" \notin paths \/ ~o.transcript_exists
    THEN Result(SetFailed(rows, id, "transcript_missing", t), "False", <<>>)
    ELSE IF ~o.prefilter[1]
    THEN Result(SetFailed(rows, id, o.prefilter[2], t), "False", <<"llm">>)
    ELSE IF ~o.llm_resp.ok
    THEN Result(SetFailed(rows, id, "llm_call_failed", t), "False", <<"llm">>)
    ELSE IF ~o.llm_resp.content_safe
    THEN Result(SetFailed(rows, id, "content_unsafe:" \o o.llm_resp.content_flag, t),
                "False", <<"llm">>)
    ELSE IF o.llm_resp.viral_score < 3
    THEN Result(SetFailed(rows, id,
                          "low_viral_score:" \o ToString(o.llm_resp.viral_score), t),
                "False", <<"llm">>)
    ELSE IF o.ed_raises
    THEN Result(SetFailed(rows, id, "edit_decision_invalid:" \o o.e, t),
                "False", <<"llm">>)
    ELSE Result([SetStatusPaths(rows, id, "DECIDED", paths \cup {"edit_decision"}, t)
                    EXCEPT ![id].viral_score = o.llm_resp.viral_score],
                "True", <<"llm">>)

\* a variant: the score is checked before the safety verdict
decide_finish_score_first(rows, id, paths, o, t) ==
    IF "transcript" \notin paths \/ ~o.transcript_exists
    THEN Result(SetFailed(rows, id, "transcript_missing", t), "False", <<>>)
    ELSE IF ~o.prefilter[1]
    THEN Result(SetFailed(rows, id, o.prefilter[2], t), "False", <<>>)
    ELSE IF ~o.llm_resp.ok
    THEN Result(SetFailed(rows, id, "llm_call_failed", t), "False", <<"llm">>)
    ELSE IF o.llm_resp.viral_score < 3
    THEN Result(SetFailed(rows, id,
                          "low_viral_score:" \o ToString(o.llm_resp.viral_score), t),
                "False", <<"llm">>)
    ELSE IF ~o.llm_resp.content_safe
    THEN Result(SetFailed(rows, id, "content_unsafe:" \o o.llm_resp.content_flag, t),
                "False", <<"llm">>)
    ELSE IF o.ed_raises
    THEN Result(SetFailed(rows, id, "edit_decision_invalid:" \o o.e, t),
                "False", <<"llm">>)
    ELSE Result([SetStatusPaths(rows, id, "DECIDED", paths \cup {"edit_decision"}, t)
                    EXCEPT ![id].viral_score = o.llm_resp.viral_score],
                "True", <<"llm">>)

decide_finish(rows, id, paths, o, t) ==
    IF "transcript" \notin paths \/ ~o.transcript_exists
    THEN Result(SetFailed(rows, id, "transcript_missing", t), "False", <<>>)
    ELSE IF ~o.prefilter[1]
    THEN Result(SetFailed(rows, id, o.prefilter[2], t), "False", <<>>)
    ELSE IF ~o.llm_resp.ok
    THEN Result(SetFailed(rows, id, "llm_call_failed", t), "False", <<"llm">>)
    ELSE IF ~o.llm_resp.content_safe
    THEN Result(SetFailed(rows, id, "content_unsafe:" \o o.llm_resp.content_flag, t),
                "False", <<"llm">>)
    ELSE IF o.llm_resp.viral_score < 3
    THEN Result(SetFailed(rows, id,
                          "low_viral_score:" \o ToString(o.llm_resp.viral_score), t),
                "False", <<"llm">>)
    ELSE IF o.ed_raises
    THEN Result(SetFailed(rows, id, "edit_decision_invalid:" \o o.e, t),
                "False", <<"llm">>)
    ELSE Result([SetStatusPaths(rows, id, "DECIDED", paths \cup {"edit_decision"}, t)
                    EXCEPT ![id].viral_score = o.llm_resp.viral_score],
                "True", <<"llm">>)

\* ---- render/renderer.py: render_clip, lines 321-591 ----
RenderOutcomes ==
    {o \in [source_exists : BOOLEAN, decision_exists : BOOLEAN,
            transcript_readable : BOOLEAN, full_ok : BOOLEAN, simple_ok : BOOLEAN,
            bare_ok : BOOLEAN, output_valid : BOOLEAN] :
        /\ ~o.source_exists => o.decision_exists
        /\ (~o.source_exists \/ ~o.decision_exists) => o.transcript_readable
        /\ (~o.source_exists \/ ~o.decision_exists \/ ~o.transcript_readable) => o.full_ok
        /\ o.full_ok => o.simple_ok
        /\ o.simple_ok => o.bare_ok
        /\ (~o.source_exists \/ ~o.decision_exists \/ ~o.transcript_readable
              \/ ~o.bare_ok) => o.output_valid}

\* a variant: the bare attempt follows the full one directly
RenderAttemptsNoSimple(o) ==
    IF o.full_ok THEN <<"ffmpeg_full">> ELSE <<"ffmpeg_full", "ffmpeg_bare">>

\* lines 486-565: the ffmpeg attempts made, in order
RenderAttempts(o) ==
    IF o.full_ok THEN <<"ffmpeg_full">>
    ELSE IF o.simple_ok THEN <<"ffmpeg_full", "ffmpeg_simple">>
    ELSE <<"ffmpeg_full", "ffmpeg_simple", "ffmpeg_bare">>

render_finish(rows, id, paths, o, t) ==
    IF "source" \notin paths \/ ~o.source_exists
    THEN Result(rows, "False", <<>>)
    ELSE IF "edit_decision" \notin paths \/ ~o.decision_exists
    THEN Result(rows, "False", <<>>)
    ELSE IF "transcript" \notin paths \/ ~o.transcript_readable
    THEN Result(rows, "raised", <<>>)
    ELSE IF ~o.full_ok /\ ~o.simple_ok /\ ~o.bare_ok
    THEN Result(SetFailed(rows, id, "render_failed", t), "False", RenderAttempts(o))
    ELSE IF ~o.output_valid
    THEN Result(SetFailed(rows, id, "render_output_invalid", t), "False", RenderAttempts(o))
    ELSE Result(SetStatusPaths(rows, id, "RENDERED", paths \cup {"rendered"}, t),
                "True", RenderAttempts(o))

\* ---- package/packager.py: package_clip, lines 50-153 ----
PackageOutcomes == [rendered_exists : BOOLEAN]

package_finish(rows, id, paths, o, t) ==
    IF "rendered" \notin paths \/ ~o.rendered_exists
    THEN Result(rows, "False", <<>>)
    ELSE Result(SetStatusPaths(rows, id, "PACKAGED", paths \cup {"publish_pack"}, t),
                "True", <<"package">>)

\* ---- the stages as a table: expected input status, outcomes, body ----
Stages == {"download_clip", "transcribe_clip", "decide_clip", "render_clip",
           "package_clip"}

\* the status each entry point SELECTs
ExpectedStatus(op) ==
    CASE op = "download_clip"   -> "DISCOVERED"
      [] op = "transcribe_clip" -> "DOWNLOADED"
      [] op = "decide_clip"     -> "TRANSCRIBED"
      [] op = "render_clip"     -> "DECIDED"
      [] op = "package_clip"    -> "RENDERED"

Outcomes(op) ==
    CASE op = "download_clip"   -> DownloadOutcomes
      [] op = "transcribe_clip" -> TranscribeOutcomes
      [] op = "decide_clip"     -> DecideOutcomes
      [] op = "render_clip"     -> RenderOutcomes
      [] op = "package_clip"    -> PackageOutcomes

Finish(op, rows, id, paths, o, t) ==
    CASE op = "download_clip"   -> download_finish(rows, id, paths, o, t)
      [] op = "transcribe_clip" -> transcribe_finish(rows, id, paths, o, t)
      [] op = "decide_clip"     -> decide_finish(rows, id, paths, o, t)
      [] op = "render_clip"     -> render_finish(rows, id, paths, o, t)
      [] op = "package_clip"    -> package_finish(rows, id, paths, o, t)

\* what an invocation that found its row does to the store, given the inputs o
StageWith(op, clip_row_id, o) ==
    LET r == Finish(op, clips, clip_row_id, clips[clip_row_id].paths, o, now)
    IN  /\ clips' = r.rows
        /\ last' = [sel |-> "match", ret |-> r.ret, calls |-> r.calls]

\* what one whole invocation of a stage entry point does to the store
StageEffect(op, clip_row_id) ==
    LET sel == SelKind(clips, clip_row_id, ExpectedStatus(op))
    IN  IF sel # "match"
        THEN /\ clips' = clips
             /\ last' = [sel |-> sel, ret |-> "False", calls |-> <<>>]
        ELSE \E o \in Outcomes(op) : StageWith(op, clip_row_id, o)

\* one whole invocation of a stage entry point, nothing else running meanwhile
StageCall(op, clip_row_id) ==
    /\ StageEffect(op, clip_row_id)
    /\ UNCHANGED <<env, cursors, now, workers, fin, fout, run>>

download_clip(clip_row_id) == StageCall("download_clip", clip_row_id)
transcribe_clip(clip_row_id) == StageCall("transcribe_clip", clip_row_id)
decide_clip(clip_row_id) == StageCall("decide_clip", clip_row_id)
render_clip(clip_row_id) == StageCall("render_clip", clip_row_id)
package_clip(clip_row_id) == StageCall("package_clip", clip_row_id)

(***************************************************************************)
(* run.py: select_top_clips                                                *)
(***************************************************************************)
\* a variant: the rows of the profile in any status
RowsOfProfile(rows, profile_slug) ==
    {i \in 1..Len(rows) : rows[i].profile_id = profile_slug}

\* lines 89-96: the RENDERED rows of the profile
RenderedOf(rows, profile_slug) ==
    {i \in 1..Len(rows) :
        rows[i].profile_id = profile_slug /\ rows[i].status = "RENDERED"}

\* a variant: ORDER BY cl.viral_score ASC, cl.updated_at ASC
SortsBeforeAscending(a, b) ==
    LET ka == IF a.viral_score = Null THEN -100 ELSE a.viral_score
        kb == IF b.viral_score = Null THEN -100 ELSE b.viral_score
    IN  ka < kb \/ (ka = kb /\ a.updated_at < b.updated_at)

\* ORDER BY cl.viral_score DESC, cl.updated_at ASC (NULL sorts below every score)
SortsBefore(a, b) ==
    LET ka == IF a.viral_score = Null THEN -100 ELSE a.viral_score
        kb == IF b.viral_score = Null THEN -100 ELSE b.viral_score
    IN  ka > kb \/ (ka = kb /\ a.updated_at < b.updated_at)

\* a variant: any top_n of the rows, whatever their order
KeepSetsAny(rows, R, top_n) == {K \in SUBSET R : Cardinality(K) = top_n}

\* the sets rendered[:top_n] can be: rows equal on both sort keys come in an
\* order the query leaves open
KeepSets(rows, R, top_n) ==
    {K \in SUBSET R :
        /\ Cardinality(K) = top_n
        /\ \A k \in K : \A c \in R \ K : ~SortsBefore(rows[c], rows[k])}

RECURSIVE DemoteAll(_, _, _)
\* a variant: the UPDATE also clears paths_json and viral_score
DemoteAllClearing(rows, cut_ids, t) ==
    [i \in 1..Len(rows) |->
        IF i \in cut_ids
        THEN [rows[i] EXCEPT !.status = "FAILED", !.fail_reason = "cut:below_top_n",
                             !.updated_at = t, !.paths = {}, !.viral_score = Null]
        ELSE rows[i]]

\* lines 132-137: the UPDATE of every cut id
DemoteAll(rows, cut_ids, t) ==
    IF cut_ids = {} THEN rows
    ELSE LET cid == CHOOSE c \in cut_ids : TRUE
         IN  DemoteAll(SetFailed(rows, cid, "cut:below_top_n", t), cut_ids \ {cid}, t)

\* what select_top_clips does to the store
SelectEffect(profile_slug, top_n) ==
    LET R == RenderedOf(clips, profile_slug)
        total == Cardinality(R)
    IN  IF total <= top_n
        THEN /\ clips' = clips
             /\ last' = [sel |-> "n/a", ret |-> ToString(total), calls |-> <<>>]
        ELSE \E K \in KeepSets(clips, R, top_n) :
             /\ clips' = DemoteAll(clips, R \ K, now)
             /\ last' = [sel |-> "n/a", ret |-> ToString(Cardinality(K)),
                         calls |-> <<>>]

select_top_clips(profile_slug, top_n) ==
    /\ SelectEffect(profile_slug, top_n)
    /\ UNCHANGED <<env, cursors, now, workers, fin, fout, run>>

(***************************************************************************)
(* The clock and the initial store.                                        *)
(***************************************************************************)
\* time passes between two statements
Tick ==
    /\ now < MaxNow
    /\ now' = now + 1
    /\ UNCHANGED <<env, clips, cursors, last, workers, fin, fout, run>>

Workers == {1, 2}
Idle == [op |-> "idle", id |-> 0, paths |-> {}]
\* no run_pipeline in progress
NoRun == [pc |-> "idle", profile |-> "none", top_n |-> 0, selected |-> FALSE,
          queue |-> <<>>, packaged |-> {}, cut |-> {}]
NoFilter == [platform |-> "none", fetched |-> <<>>, last_fetched_at |-> Null,
             cutoff |-> 1, max_clips |-> 1]

\* init_db on a new database file: no clips, no cursors
Init ==
    /\ env = [channels |-> OneClipChannels,
              llm_scores |-> {2, 3}, llm_flags |-> {""}, created_at_read |-> FALSE]
    /\ clips = <<>>
    /\ cursors = [c \in Creators |-> Null]
    /\ now = 0
    /\ last = NoCall
    /\ workers = [w \in Workers |-> Idle]
    /\ run = NoRun
    /\ fin = NoFilter
    /\ fout = <<>>

RowIds == 1..(Len(clips) + 1)     \* the stored ids and one id that is not stored

Next ==
    \/ \E p \in Profiles : discover_for_profile(p)
    \/ \E id \in RowIds : download_clip(id)
    \/ \E id \in RowIds : transcribe_clip(id)
    \/ \E id \in RowIds : decide_clip(id)
    \/ \E id \in RowIds : render_clip(id)
    \/ \E id \in RowIds : package_clip(id)
    \/ \E p \in Profiles, n \in 0..MaxTopN : select_top_clips(p, n)
    \/ Tick

Spec == Init /\ [][Next]_vars

(***************************************************************************)
(* Two pipeline runs at once: a stage invocation is split at its awaits    *)
(* into the SELECT (Begin) and the rest up to the UPDATE (End); the rows   *)
(* may change in between.                                                  *)
(***************************************************************************)
Begin(w, op, clip_row_id) ==
    LET sel == SelKind(clips, clip_row_id, ExpectedStatus(op))
    IN  /\ workers[w] = Idle
        /\ IF sel # "match"
           THEN /\ last' = [sel |-> sel, ret |-> "False", calls |-> <<>>]
                /\ UNCHANGED workers
           ELSE /\ workers' = [workers EXCEPT ![w] =
                       [op |-> op, id |-> clip_row_id, paths |-> clips[clip_row_id].paths]]
                /\ UNCHANGED last
        /\ UNCHANGED <<env, clips, cursors, now, fin, fout, run>>

End(w) ==
    /\ workers[w] # Idle
    /\ \E o \in Outcomes(workers[w].op) :
           LET r == Finish(workers[w].op, clips, workers[w].id, workers[w].paths, o, now)
           IN  /\ clips' = r.rows
               /\ last' = [sel |-> "match", ret |-> r.ret, calls |-> r.calls]
    /\ workers' = [workers EXCEPT ![w] = Idle]
    /\ UNCHANGED <<env, cursors, now, fin, fout, run>>

InitConc ==
    /\ env = [channels |-> SingleClipChannels,
              llm_scores |-> {2, 3}, llm_flags |-> {""}, created_at_read |-> FALSE]
    /\ clips = <<>>
    /\ cursors = [c \in Creators |-> Null]
    /\ now = 0
    /\ last = NoCall
    /\ workers = [w \in Workers |-> Idle]
    /\ run = NoRun
    /\ fin = NoFilter
    /\ fout = <<>>

NextConc ==
    \/ \E p \in Profiles : discover_for_profile(p)
    \/ \E w \in Workers, op \in Stages, id \in RowIds : Begin(w, op, id)
    \/ \E w \in Workers : End(w)
    \/ \E p \in Profiles, n \in 0..MaxTopN : select_top_clips(p, n)
    \/ Tick

SpecConc == InitConc /\ [][NextConc]_vars

(***************************************************************************)
(* Discovery alone, on a database file that already holds cursors.         *)
(***************************************************************************)
InitDiscover ==
    /\ env = [channels |-> TwoClipChannels,
              llm_scores |-> {2, 3}, llm_flags |-> {""}, created_at_read |-> FALSE]
    /\ clips = <<>>
    /\ cursors \in [Creators -> {Null} \cup Times]
    /\ now = 0
    /\ last = NoCall
    /\ workers = [w \in Workers |-> Idle]
    /\ run = NoRun
    /\ fin = NoFilter
    /\ fout = <<>>

NextDiscover ==
    \/ \E p \in Profiles : discover_for_profile(p)
    \/ Tick

SpecDiscover == InitDiscover /\ [][NextDiscover]_vars

(***************************************************************************)
(* discover_clips_for_creator of the three clients as functions of their   *)
(* arguments and of what the platform holds.                               *)
(***************************************************************************)
Clients == {"kick", "kick_v2", "twitch"}
FilterTimes == Times \cup {Empty, Bad}
FilterClips(client) ==
    {Meta(IF client = "twitch" THEN "twitch" ELSE "kick", "x", ca) : ca \in FilterTimes}

FilterInputs ==
    UNION {[platform : {cl}, fetched : ListsOf(FilterClips(cl)),
            last_fetched_at : {Null} \cup Times, cutoff : Times,
            max_clips : 1..MaxPerCreator] : cl \in Clients}

InitFilter ==
    /\ env = [channels |-> OneClipChannels,
              llm_scores |-> {2, 3}, llm_flags |-> {""}, created_at_read |-> FALSE]
    /\ clips = <<>>
    /\ cursors = [c \in Creators |-> Null]
    /\ now = 0
    /\ last = NoCall
    /\ workers = [w \in Workers |-> Idle]
    /\ run = NoRun
    /\ fin \in FilterInputs
    /\ fout = <<>>

discover_clips_for_creator ==
    /\ last = NoCall
    /\ fout' = CASE fin.platform = "kick" ->
                      kick_discover_clips_for_creator(fin.fetched, fin.last_fetched_at,
                                                      fin.max_clips)
                 [] fin.platform = "kick_v2" ->
                      kick_v2_discover_clips_for_creator(fin.fetched, fin.last_fetched_at,
                                                         fin.max_clips)
                 [] fin.platform = "twitch" ->
                      twitch_discover_clips_for_creator(fin.fetched, fin.last_fetched_at,
                                                        fin.cutoff, fin.max_clips)
    /\ last' = [sel |-> "n/a", ret |-> "list", calls |-> <<"fetch">>]
    /\ UNCHANGED <<env, clips, cursors, now, workers, fin, run>>

NextFilter == discover_clips_for_creator

SpecFilter == InitFilter /\ [][NextFilter]_vars

(***************************************************************************)
(* Cancelling a run: the task is cancelled at an await between the SELECT  *)
(* and the UPDATE of a stage; CancelledError is not an Exception, so no    *)
(* except clause of the stage catches it and no statement after the await  *)
(* runs.  One run at a time, as run_pipeline is used.                      *)
(***************************************************************************)
\* a variant: the cancelled stage marks its clip FAILED on the way out
CancelMarksFailed(w) ==
    /\ workers[w] # Idle
    /\ clips' = SetFailed(clips, workers[w].id, "cancelled", now)
    /\ workers' = [workers EXCEPT ![w] = Idle]
    /\ last' = [sel |-> "match", ret |-> "cancelled", calls |-> <<>>]
    /\ UNCHANGED <<env, cursors, now, fin, fout, run>>

Cancel(w) ==
    /\ workers[w] # Idle
    /\ workers' = [workers EXCEPT ![w] = Idle]
    /\ last' = [sel |-> "match", ret |-> "cancelled", calls |-> <<>>]
    /\ UNCHANGED <<env, clips, cursors, now, fin, fout, run>>

NoneInFlight == \A w \in Workers : workers[w] = Idle

InitCancel ==
    /\ env = [channels |-> SingleClipChannels,
              llm_scores |-> {2, 3}, llm_flags |-> {""}, created_at_read |-> FALSE]
    /\ clips = <<>>
    /\ cursors = [c \in Creators |-> Null]
    /\ now = 0
    /\ last = NoCall
    /\ workers = [w \in Workers |-> Idle]
    /\ run = NoRun
    /\ fin = NoFilter
    /\ fout = <<>>

NextCancel ==
    \/ NoneInFlight /\ \E p \in Profiles : discover_for_profile(p)
    \/ NoneInFlight /\ \E op \in Stages, id \in RowIds : Begin(1, op, id)
    \/ End(1)
    \/ Cancel(1)
    \/ NoneInFlight /\ \E p \in Profiles, n \in 0..MaxTopN : select_top_clips(p, n)
    \/ Tick

SpecCancel == InitCancel /\ [][NextCancel]_vars

(***************************************************************************)
(* run.py: run_pipeline.  run.pc is the step the run is at, run.selected   *)
(* whether the stage function has done its SELECT, run.queue the rows of   *)
(* that SELECT not yet processed; run.packaged and run.cut record the ids  *)
(* this run packaged and cut.                                              *)
(***************************************************************************)
StageLimit == 100        \* limit=100 of the download .. render batches

\* a variant: the batch SELECT leaves the order of the rows open
BatchOrdersUnordered(rows, profile_slug, st, limit) ==
    LET S == {i \in 1..Len(rows) : rows[i].profile_id = profile_slug /\ rows[i].status = st}
        n == Cardinality(S)
    IN  {Take(q, limit) : q \in {f \in [1..n -> S] : \A i, j \in 1..n : i # j => f[i] # f[j]}}

\* SELECT cl.id ... WHERE p.slug = ? AND cl.status = ? ORDER BY cl.created_at ASC
\* LIMIT ?: the lists of ids the query can give (rows equal on created_at come
\* in an order the query leaves open)
BatchOrders(rows, profile_slug, st, limit) ==
    LET S == {i \in 1..Len(rows) : rows[i].profile_id = profile_slug /\ rows[i].status = st}
        n == Cardinality(S)
    IN  {Take(q, limit) :
            q \in {f \in [1..n -> S] :
                     /\ \A i, j \in 1..n : i # j => f[i] # f[j]
                     /\ \A i, j \in 1..n :
                           i < j => rows[f[i]].created_at <= rows[f[j]].created_at}}

\* the steps of run_pipeline after discovery, in program order
NextPc(pc) ==
    CASE pc = "download_clip"   -> "transcribe_clip"
      [] pc = "transcribe_clip" -> "decide_clip"
      [] pc = "decide_clip"     -> "render_clip"
      [] pc = "render_clip"     -> "select"
      [] pc = "package_clip"    -> "done"

\* limit of the stage's batch: 100, and top_n for package_rendered_clips
BatchLimit(pc, top_n) == IF pc = "package_clip" THEN top_n ELSE StageLimit

\* python -m src.run --profile p --top n [--skip-discover]
RunStart(p, n, skip_discover) ==
    /\ run.pc = "idle"
    /\ run' = [NoRun EXCEPT !.pc = IF skip_discover THEN "download_clip" ELSE "discover",
                            !.profile = p, !.top_n = n]
    /\ UNCHANGED <<env, clips, cursors, now, last, workers, fin, fout>>

\* Step 1: discover_for_profile
RunDiscover ==
    /\ run.pc = "discover"
    /\ \E F \in FetchInputs(run.profile) :
       \E cutoff \in CutoffInputs(run.profile, F) :
       \E limit_per_creator \in MaxInputs(F) :
           DiscoverEffect(run.profile, limit_per_creator, F, cutoff)
    /\ run' = [run EXCEPT !.pc = "download_clip"]
    /\ UNCHANGED <<env, now, workers, fin, fout>>

\* a stage function starts: its SELECT
RunSelectBatch ==
    /\ run.pc \in Stages /\ ~run.selected
    /\ \E q \in BatchOrders(clips, run.profile, ExpectedStatus(run.pc),
                            BatchLimit(run.pc, run.top_n)) :
           run' = [run EXCEPT !.selected = TRUE, !.queue = q]
    /\ UNCHANGED <<env, clips, cursors, now, last, workers, fin, fout>>

\* one turn of the stage function's loop: the entry point is awaited on the next
\* row; an exception it raises leaves the loop, the stage function and run_pipeline
RunClip ==
    /\ run.pc \in Stages /\ run.selected /\ run.queue # <<>>
    /\ StageEffect(run.pc, Head(run.queue))
    /\ run' = IF last'.ret = "raised"
              THEN [run EXCEPT !.pc = "crashed", !.queue = <<>>]
              ELSE [run EXCEPT !.queue = Tail(run.queue),
                               !.packaged = IF run.pc = "package_clip" /\ last'.ret = "True"
                                            THEN run.packaged \cup {Head(run.queue)}
                                            ELSE run.packaged]
    /\ UNCHANGED <<env, cursors, now, workers, fin, fout>>

\* the stage function returns its stats and run_pipeline goes to its next step
RunStageDone ==
    /\ run.pc \in Stages /\ run.selected /\ run.queue = <<>>
    /\ run' = [run EXCEPT !.pc = NextPc(run.pc), !.selected = FALSE]
    /\ UNCHANGED <<env, clips, cursors, now, last, workers, fin, fout>>

\* Step 5.5: select_top_clips
RunSelectTop ==
    /\ run.pc = "select"
    /\ SelectEffect(run.profile, run.top_n)
    /\ run' = [run EXCEPT !.pc = "package_clip",
                          !.cut = {i \in 1..Len(clips) : clips'[i].status # clips[i].status}]
    /\ UNCHANGED <<env, cursors, now, workers, fin, fout>>

InitRun ==
    /\ env = [channels |-> OneClipChannels,
              llm_scores |-> {2, 3, 4}, llm_flags |-> {""}, created_at_read |-> TRUE]
    /\ clips = <<>>
    /\ cursors = [c \in Creators |-> Null]
    /\ now = 0
    /\ last = NoCall
    /\ workers = [w \in Workers |-> Idle]
    /\ run = NoRun
    /\ fin = NoFilter
    /\ fout = <<>>

\* one run of the pipeline, on a store that discovery run on its own
\* (seed.py) may have filled before
NextRun ==
    \/ \E p \in Profiles, n \in 0..MaxTopN, skip_discover \in BOOLEAN :
           RunStart(p, n, skip_discover)
    \/ RunDiscover
    \/ RunSelectBatch
    \/ RunClip
    \/ RunStageDone
    \/ RunSelectTop
    \/ run.pc = "idle" /\ \E p \in Profiles : discover_for_profile(p)
    \/ Tick

SpecRun == InitRun /\ [][NextRun]_vars

(***************************************************************************)
(* The stages on one clip, with every verdict the LLM may return: a score   *)
(* in 0..MaxScore and a content flag.                                      *)
(***************************************************************************)
InitVerdict ==
    /\ env = [channels |-> SingleClipChannels,
              llm_scores |-> 0..MaxScore,
              llm_flags |-> {"flagged_by_llm", "sexual_content"},
              created_at_read |-> FALSE]
    /\ clips = <<>>
    /\ cursors = [c \in Creators |-> Null]
    /\ now = 0
    /\ last = NoCall
    /\ workers = [w \in Workers |-> Idle]
    /\ run = NoRun
    /\ fin = NoFilter
    /\ fout = <<>>

SpecVerdict == InitVerdict /\ [][Next]_vars

(***************************************************************************)
(* select_top_clips on its own, on stores of decided and rendered clips.   *)
(***************************************************************************)
\* the rows decide_clip and render_clip leave: a DECIDED or RENDERED row holds
\* the artifacts of its stages and the score of its verdict (a score the
\* filter of decide_clip let through), or no score where the row is older than
\* the viral_score column
ScoredRow(clip, creator_id, profile_id, st, score, t) ==
    [platform |-> clip.platform, clip_id |-> clip.clip_id,
     creator_id |-> creator_id, profile_id |-> profile_id,
     status |-> st, viral_score |-> score, fail_reason |-> None,
     paths |-> {"source", "transcript", "edit_decision"}
                  \cup (IF st = "RENDERED" THEN {"rendered"} ELSE {}),
     meta_created_at |-> clip.created_at, created_at |-> 0, updated_at |-> t]

ScoredRows(clip, creator_id, profiles) ==
    {ScoredRow(clip, creator_id, p, st, score, t) :
        p \in profiles, st \in {"DECIDED", "RENDERED"}, score \in {Null, 3, 4},
        t \in 0..MaxNow}

InitSelect ==
    /\ env = [channels |-> TwoClipChannels,
              llm_scores |-> {3, 4}, llm_flags |-> {""}, created_at_read |-> FALSE]
    /\ \E r1 \in ScoredRows(Meta("kick", "a", 1), "kc", Profiles) :
       \E r2 \in ScoredRows(Meta("kick", "b", MaxTime), "kc", Profiles) :
       \E r3 \in ScoredRows(Meta("twitch", "a", MaxTime), "tc", {"p1"}) :
           clips = <<r1, r2, r3>>
    /\ cursors = [c \in Creators |-> Null]
    /\ now = MaxNow
    /\ last = NoCall
    /\ workers = [w \in Workers |-> Idle]
    /\ run = NoRun
    /\ fin = NoFilter
    /\ fout = <<>>

NextSelect == \E p \in Profiles, n \in 0..MaxRows : select_top_clips(p, n)

SpecSelect == InitSelect /\ [][NextSelect]_vars

(***************************************************************************)
(* Functions of their arguments alone: a behaviour starts with the          *)
(* arguments in fin and its one step puts the result in fout.              *)
(***************************************************************************)
PureInit(inputs) ==
    /\ env = [channels |-> OneClipChannels,
              llm_scores |-> {2, 3}, llm_flags |-> {""}, created_at_read |-> FALSE]
    /\ clips = <<>>
    /\ cursors = [c \in Creators |-> Null]
    /\ now = 0
    /\ last = NoCall
    /\ workers = [w \in Workers |-> Idle]
    /\ run = NoRun
    /\ fin \in inputs
    /\ fout = <<>>

(***************************************************************************)
(* downloader.py and utils/http.py: how download_clip gets the file, as a  *)
(* function of the clip's platform and URL and of how each attempt ends.   *)
(***************************************************************************)
MaxRetries == 2       \* settings.max_retries ranges over 0..MaxRetries

RECURSIVE download_file(_, _, _)
\* http.py 47-66: for attempt in range(max_retries + 1); results[attempt + 1]
\* is how that attempt ends, "ok" or "error" (any exception).  Gives the
\* return value and the attempts made.
download_file(results, attempt, max_retries) ==
    IF attempt > max_retries
    THEN [ok |-> FALSE, made |-> <<>>]
    ELSE IF results[attempt + 1] = "ok"
    THEN [ok |-> TRUE, made |-> <<"ok">>]
    ELSE IF attempt < max_retries
    THEN LET r == download_file(results, attempt + 1, max_retries)
         IN  [ok |-> r.ok, made |-> <<"error">> \o r.made]
    ELSE [ok |-> FALSE, made |-> <<"error">>]

\* downloader.py 21-31
download_twitch_clip(d) ==
    IF d.download_url = ""
    THEN [path_ok |-> FALSE, made |-> <<>>]
    ELSE LET r == download_file(d.results, 0, d.max_retries)
         IN  [path_ok |-> r.ok /\ d.file_ok, made |-> r.made]

\* downloader.py 34-72: direct download of an .mp4 URL, else one ffmpeg run
download_kick_clip(d) ==
    IF d.download_url = ""
    THEN [path_ok |-> FALSE, made |-> <<>>]
    ELSE IF d.download_url = "mp4"
    THEN LET r == download_file(d.results, 0, d.max_retries)
         IN  [path_ok |-> r.ok /\ d.file_ok, made |-> r.made]
    ELSE [path_ok |-> d.ffmpeg = "ok" /\ d.file_ok,
          made |-> <<IF d.ffmpeg = "ok" THEN "ok" ELSE "error">>]

\* downloader.py 92-96
DownloadPath(d) ==
    IF d.platform = "twitch" THEN download_twitch_clip(d)
    ELSE IF d.platform = "kick" THEN download_kick_clip(d)
    ELSE [path_ok |-> FALSE, made |-> <<>>]

\* the arguments: the URL is none, an .mp4 or an HLS playlist (twitch_api.py
\* builds .mp4 URLs only); results are the ends of the HTTP attempts, ffmpeg
\* the end of the ffmpeg run, file_ok whether the file written is not empty
DownloadInputs ==
    {d \in [platform : {"twitch", "kick"}, download_url : {"", "mp4", "m3u8"},
            max_retries : 0..MaxRetries,
            results : [1..(MaxRetries + 1) -> {"ok", "error"}],
            ffmpeg : {"ok", "error", "not_found"}, file_ok : BOOLEAN] :
        d.platform = "twitch" => d.download_url # "m3u8"}

InitDownload ==
    /\ PureInit(DownloadInputs)

\* download_clip on the DISCOVERED row of the clip
DownloadClip ==
    /\ last = NoCall
    /\ LET row == NewRow(Meta(fin.platform, "a", 1),
                         IF fin.platform = "twitch" THEN "tc" ELSE "kc", "p1", now)
           g == DownloadPath(fin)
           r == download_finish(<<row>>, 1, {}, [path_ok |-> g.path_ok], now)
       IN  /\ clips' = r.rows
           /\ fout' = g.made
           /\ last' = [sel |-> "match", ret |-> r.ret, calls |-> r.calls]
    /\ UNCHANGED <<env, cursors, now, workers, fin, run>>

NextDownload == DownloadClip

SpecDownload == InitDownload /\ [][NextDownload]_vars

(***************************************************************************)
(* transcribe/transcriber.py: the quality gates.  Times are whole units,   *)
(* silence_ratio_max is in thousandths and the arithmetic is exact.        *)
(***************************************************************************)
MaxSegTime == 4       \* segment starts and ends range over 0..MaxSegTime
MaxDuration == 10     \* transcript durations range over -1..MaxDuration

\* a variant: a first segment starting at hook_max_delay_sec is rejected too
gate_hook_strict(transcript, rules) ==
    IF transcript.segments = <<>>
    THEN <<FALSE, "no_speech_detected">>
    ELSE IF transcript.segments[1].start >= rules.hook_max_delay_sec
    THEN <<FALSE, "hook_too_late">>
    ELSE <<TRUE, "">>

\* lines 67-79; the reason is given by its prefix
gate_hook(transcript, rules) ==
    IF transcript.segments = <<>>
    THEN <<FALSE, "no_speech_detected">>
    ELSE IF transcript.segments[1].start > rules.hook_max_delay_sec
    THEN <<FALSE, "hook_too_late">>
    ELSE <<TRUE, "">>

RECURSIVE SpeechDuration(_)
\* lines 91-93: sum(seg["end"] - seg["start"] for seg in segments)
SpeechDuration(segments) ==
    IF segments = <<>> THEN 0
    ELSE (Head(segments).end - Head(segments).start) + SpeechDuration(Tail(segments))

\* a variant: no tolerance added to silence_ratio_max
gate_silence_no_epsilon(transcript, rules) ==
    IF transcript.duration <= 0
    THEN <<FALSE, "zero_duration">>
    ELSE IF 1000 * (transcript.duration - SpeechDuration(transcript.segments))
               > rules.silence_ratio_max * transcript.duration
    THEN <<FALSE, "too_silent">>
    ELSE <<TRUE, "">>

\* lines 82-99: silence_ratio > silence_ratio_max + 0.001, both sides
\* multiplied by 1000 * duration (duration > 0 here)
gate_silence(transcript, rules) ==
    IF transcript.duration <= 0
    THEN <<FALSE, "zero_duration">>
    ELSE IF 1000 * (transcript.duration - SpeechDuration(transcript.segments))
               > (rules.silence_ratio_max + 1) * transcript.duration
    THEN <<FALSE, "too_silent">>
    ELSE <<TRUE, "">>

\* a variant: every duration above the maximum is rejected
gate_length_max_only(transcript, rules) ==
    IF transcript.duration < rules.length_band_sec[1]
    THEN <<FALSE, "too_short">>
    ELSE IF transcript.duration > rules.length_band_sec[2]
    THEN <<FALSE, "way_too_long">>
    ELSE <<TRUE, "">>

\* lines 102-117
gate_length(transcript, rules) ==
    IF transcript.duration < rules.length_band_sec[1]
    THEN <<FALSE, "too_short">>
    ELSE IF /\ transcript.duration > rules.length_band_sec[2]
            /\ transcript.duration > rules.length_band_sec[2] * 3
    THEN <<FALSE, "way_too_long">>
    ELSE <<TRUE, "">>

\* a variant: the silence gate comes first
GatesSilenceFirst == <<"silence", "hook", "length">>

\* lines 122-126: the gates list
Gates == <<"hook", "silence", "length">>

GateFn(name, transcript, rules) ==
    CASE name = "hook"    -> gate_hook(transcript, rules)
      [] name = "silence" -> gate_silence(transcript, rules)
      [] name = "length"  -> gate_length(transcript, rules)

RECURSIVE RunGates(_, _, _)
\* lines 128-133: the loop over the gates
RunGates(gates, transcript, rules) ==
    IF gates = <<>> THEN <<TRUE, "">>
    ELSE LET r == GateFn(Head(gates), transcript, rules)
         IN  IF ~r[1] THEN <<FALSE, r[2]>>
             ELSE RunGates(Tail(gates), transcript, rules)

run_quality_gates(transcript, rules) == RunGates(Gates, transcript, rules)

\* transcripts as transcribe_audio builds them: at most two segments in
\* time order, each with start <= end, and a duration
Segs == {sg \in [start : 0..MaxSegTime, end : 0..MaxSegTime] : sg.start <= sg.end}
SegLists ==
    {<<>>} \cup {<<a>> : a \in Segs}
           \cup {p \in {<<a, b>> : a \in Segs, b \in Segs} : p[2].start >= p[1].end}
GateRules ==
    [hook_max_delay_sec : {0, 2}, silence_ratio_max : {200, 333, 999},
     length_band_sec : {<<1, 1>>, <<2, 3>>}]
GateInputs ==
    [transcript : [segments : SegLists, duration : -1..MaxDuration], rules : GateRules]

InitGates ==
    /\ PureInit(GateInputs)

\* the three gates and run_quality_gates applied to the arguments
QualityGates ==
    /\ last = NoCall
    /\ fout' = [hook |-> gate_hook(fin.transcript, fin.rules),
                silence |-> gate_silence(fin.transcript, fin.rules),
                length |-> gate_length(fin.transcript, fin.rules),
                all |-> run_quality_gates(fin.transcript, fin.rules)]
    /\ last' = [sel |-> "n/a", ret |-> "tuple", calls |-> Gates]
    /\ UNCHANGED <<env, clips, cursors, now, workers, fin, run>>

NextGates == QualityGates

SpecGates == InitGates /\ [][NextGates]_vars

(***************************************************************************)
(* moderation/content_mod.py: content_pre_filter.  A text is given by what *)
(* the function reads of it: whether a pattern of each hard-reject list    *)
(* matches, the number of its words (text.split()) and how many of them    *)
(* are, cleaned, in BLEEP_WORDS.                                           *)
(***************************************************************************)
MaxWords == 60                  \* texts have 0..MaxWords words
MAX_BLEEP_WORDS == 8
MAX_PROFANITY_DENSITY == 12     \* 0.12, in hundredths

\* a variant: the density is checked first, and against >=
ProfanityCheckDensityFirst(text) ==
    IF text.words = 0 THEN <<TRUE, "">>
    ELSE IF 100 * text.bleep_count >= MAX_PROFANITY_DENSITY * text.words
    THEN <<FALSE, "hard_reject:profanity_density">>
    ELSE IF text.bleep_count > MAX_BLEEP_WORDS
    THEN <<FALSE, "hard_reject:too_many_profanities">>
    ELSE <<TRUE, "">>

\* lines 113-123: bleep_count / len(words) > 0.12, both sides multiplied by
\* 100 * len(words)
ProfanityCheck(text) ==
    IF text.words = 0 THEN <<TRUE, "">>
    ELSE IF text.bleep_count > MAX_BLEEP_WORDS
    THEN <<FALSE, "hard_reject:too_many_profanities">>
    ELSE IF 100 * text.bleep_count > MAX_PROFANITY_DENSITY * text.words
    THEN <<FALSE, "hard_reject:profanity_density">>
    ELSE <<TRUE, "">>

\* a variant: the profanity count is looked at before the pattern lists
content_pre_filter_count_first(text) ==
    IF ~ProfanityCheck(text)[1] THEN ProfanityCheck(text)
    ELSE IF text.slur THEN <<FALSE, "hard_reject:slur_detected">>
    ELSE IF text.gambling THEN <<FALSE, "hard_reject:gambling_content">>
    ELSE IF text.sexual THEN <<FALSE, "hard_reject:explicit_sexual_content">>
    ELSE <<TRUE, "">>

\* lines 91-125
content_pre_filter(text) ==
    IF text.slur THEN <<FALSE, "hard_reject:slur_detected">>
    ELSE IF text.gambling THEN <<FALSE, "hard_reject:gambling_content">>
    ELSE IF text.sexual THEN <<FALSE, "hard_reject:explicit_sexual_content">>
    ELSE ProfanityCheck(text)

\* a text in which a pattern matches has a word
TextInputs ==
    {x \in [slur : BOOLEAN, gambling : BOOLEAN, sexual : BOOLEAN,
            words : 0..MaxWords, bleep_count : 0..MaxWords] :
        /\ x.bleep_count <= x.words
        /\ (x.slur \/ x.gambling \/ x.sexual) => x.words > 0}

InitModeration ==
    /\ PureInit(TextInputs)

ContentPreFilter ==
    /\ last = NoCall
    /\ fout' = content_pre_filter(fin)
    /\ last' = [sel |-> "n/a", ret |-> "tuple", calls |-> <<>>]
    /\ UNCHANGED <<env, clips, cursors, now, workers, fin, run>>

NextModeration == ContentPreFilter

SpecModeration == InitModeration /\ [][NextModeration]_vars

(***************************************************************************)
(* render/renderer.py: _build_caption_filters, the enable intervals of the *)
(* drawtext filters it gives.  Times are in units of 0.05 s.  An interval  *)
(* runs from start / den to end / den: the fallback path divides a span by *)
(* the number of its chunks, and den is that number.                       *)
(***************************************************************************)
MaxCapTime == 4       \* word, segment and edit times range over 0..MaxCapTime
MaxChunk == 2         \* max_words ranges over 1..MaxChunk
MaxSegWords == 3      \* a transcript segment's text has 0..MaxSegWords words
TAIL_PAD == 3         \* 0.15 s
MinCaption == 2       \* 0.1 s, of c_start + 0.1

Max2(a, b) == IF a >= b THEN a ELSE b
Min2(a, b) == IF a <= b THEN a ELSE b

\* a variant: words touching the edit segment at its ends count too
OverlapsInclusive(w, segment) == w.end >= segment.start /\ w.start <= segment.end

\* line 135: w["end"] > segment.start and w["start"] < segment.end
Overlaps(w, segment) == w.end > segment.start /\ w.start < segment.end

\* lines 133-136
SegWords(words, segment) == SelectSeq(words, LAMBDA w : Overlaps(w, segment))

\* a variant: the end is not clamped to the next chunk
ClampToNextNone(c_end, seg_words, i, segment, max_words) == c_end

\* lines 149-152: clamp to next chunk start
ClampToNext(c_end, seg_words, i, segment, max_words) ==
    IF i + max_words < Len(seg_words)
    THEN Min2(c_end, seg_words[i + max_words + 1].start - segment.start)
    ELSE c_end

\* lines 139-152, one turn of the loop; i is the 0-based index of range()
WordCaption(seg_words, i, segment, max_words) ==
    LET chunk_words == SubSeq(seg_words, i + 1, Min2(i + max_words, Len(seg_words)))
        c_start == Max2(0, chunk_words[1].start - segment.start)
        c_end == Max2(c_start + MinCaption,
                      chunk_words[Len(chunk_words)].end - segment.start + TAIL_PAD)
    IN  [start |-> c_start,
         end |-> ClampToNext(c_end, seg_words, i, segment, max_words),
         den |-> 1, unclamped |-> c_end, words |-> chunk_words]

RECURSIVE WordCaptions(_, _, _, _)
\* lines 138-171: for i in range(0, len(seg_words), max_words)
WordCaptions(seg_words, i, segment, max_words) ==
    IF i >= Len(seg_words) THEN <<>>
    ELSE <<WordCaption(seg_words, i, segment, max_words)>>
            \o WordCaptions(seg_words, i + max_words, segment, max_words)

\* a variant: the transcript segment is not clipped to the edit segment
ClipToSegmentNone(seg, segment) ==
    [rel_start |-> seg.start - segment.start, rel_end |-> seg.end - segment.start]

\* lines 181-184
ClipToSegment(seg, segment) ==
    [rel_start |-> Max2(seg.start, segment.start) - segment.start,
     rel_end |-> Min2(seg.end, segment.end) - segment.start]

\* lines 175-221, one turn of the loop over transcript segments; k is the
\* position of seg in the transcript, nwords = len(text.split())
SegmentCaptions(seg, k, segment, max_words) ==
    IF seg.end <= segment.start \/ seg.start >= segment.end THEN <<>>
    ELSE IF seg.nwords = 0 THEN <<>>
    ELSE LET r == ClipToSegment(seg, segment)
             n == (seg.nwords + max_words - 1) \div max_words
         IN  [ci \in 1..n |->
                 [start |-> r.rel_start * n + (ci - 1) * (r.rel_end - r.rel_start),
                  end |-> r.rel_start * n + ci * (r.rel_end - r.rel_start),
                  den |-> n, seg |-> k]]

RECURSIVE FallbackCaptions(_, _, _, _)
FallbackCaptions(segments, k, segment, max_words) ==
    IF k > Len(segments) THEN <<>>
    ELSE SegmentCaptions(segments[k], k, segment, max_words)
            \o FallbackCaptions(segments, k + 1, segment, max_words)

\* lines 113-223
build_caption_filters(transcript, segment, max_words) ==
    IF transcript.words # <<>>
    THEN WordCaptions(SegWords(transcript.words, segment), 0, segment, max_words)
    ELSE FallbackCaptions(transcript.segments, 1, segment, max_words)

\* words with start <= end, in the order of their starts; up to three
CapWords == {w \in [start : 0..MaxCapTime, end : 0..MaxCapTime] : w.start <= w.end}
CapWordLists ==
    {<<a>> : a \in CapWords}
       \cup {p \in {<<a, b>> : a \in CapWords, b \in CapWords} : p[1].start <= p[2].start}
       \cup {p \in {<<a, b, c>> : a \in CapWords, b \in CapWords, c \in CapWords} :
                p[1].start <= p[2].start /\ p[2].start <= p[3].start}
\* transcript segments, one after the other; up to two
CapSegs ==
    {s \in [start : 0..MaxCapTime, end : 0..MaxCapTime, nwords : 0..MaxSegWords] :
        s.start <= s.end}
CapSegLists ==
    {<<>>} \cup {<<a>> : a \in CapSegs}
           \cup {p \in {<<a, b>> : a \in CapSegs, b \in CapSegs} : p[1].end <= p[2].start}
EditSegments ==
    {s \in [start : 0..MaxCapTime, end : 0..(MaxCapTime + 1)] : s.start < s.end}
CaptionInputs ==
    [transcript : [words : CapWordLists, segments : {<<>>}]
                     \cup [words : {<<>>}, segments : CapSegLists],
     segment : EditSegments, max_words : 1..MaxChunk]

InitCaptions ==
    /\ PureInit(CaptionInputs)

BuildCaptionFilters ==
    /\ last = NoCall
    /\ fout' = build_caption_filters(fin.transcript, fin.segment, fin.max_words)
    /\ last' = [sel |-> "n/a", ret |-> "filters", calls |-> <<>>]
    /\ UNCHANGED <<env, clips, cursors, now, workers, fin, run>>

NextCaptions == BuildCaptionFilters

SpecCaptions == InitCaptions /\ [][NextCaptions]_vars

(***************************************************************************)
(* render/diarize.py: assign_speakers_to_words.  The result gives, word by *)
(* word, the "speaker" key the function sets, None where it sets none.     *)
(***************************************************************************)
MaxSpkTime == 3       \* word and turn times range over 0..MaxSpkTime

RECURSIVE SpeakerLoopFirstHit(_, _, _, _)
\* a variant: the first turn that overlaps the word is taken
SpeakerLoopFirstHit(w, segs, best_speaker, best_overlap) ==
    IF segs = <<>> THEN best_speaker
    ELSE LET seg == Head(segs)
             overlap == Max2(0, Min2(w.end, seg.end) - Max2(w.start, seg.start))
             hit == overlap > 0 /\ best_overlap = 0
         IN  SpeakerLoopFirstHit(w, Tail(segs),
                                 IF hit THEN seg.speaker ELSE best_speaker,
                                 IF hit THEN overlap ELSE best_overlap)

RECURSIVE SpeakerLoop(_, _, _, _)
\* lines 141-155: the loop over the diarization segments for one word; the
\* midpoint test seg.start <= (w.start + w.end) / 2 <= seg.end is doubled
SpeakerLoop(w, segs, best_speaker, best_overlap) ==
    IF segs = <<>> THEN best_speaker
    ELSE LET seg == Head(segs)
             overlap == Max2(0, Min2(w.end, seg.end) - Max2(w.start, seg.start))
             better == overlap > best_overlap
             overlap1 == IF better THEN overlap ELSE best_overlap
             speaker1 == IF better THEN seg.speaker ELSE best_speaker
             mid_in == 2 * seg.start <= w.start + w.end /\ w.start + w.end <= 2 * seg.end
         IN  SpeakerLoop(w, Tail(segs),
                         IF overlap1 = 0 /\ mid_in THEN seg.speaker ELSE speaker1,
                         overlap1)

\* lines 112-157
assign_speakers_to_words(words, diarization_segments, segment_start, segment_end) ==
    IF diarization_segments = <<>>
    THEN [i \in 1..Len(words) |-> "SPEAKER_00"]
    ELSE [i \in 1..Len(words) |->
             IF words[i].end <= segment_start \/ words[i].start >= segment_end
             THEN None
             ELSE SpeakerLoop(words[i], diarization_segments, "SPEAKER_00", 0)]

\* one or two words with start <= end, in the order of their starts; up to two turns with start < end and
\* one of two speakers, in any order; an edit segment
SpeakerInputs ==
    LET W == {w \in [start : 0..MaxSpkTime, end : 0..MaxSpkTime] : w.start <= w.end}
        T == {t \in [start : 0..MaxSpkTime, end : 0..MaxSpkTime,
                     speaker : {"SPEAKER_00", "SPEAKER_01"}] : t.start < t.end}
    IN  [words : {<<a>> : a \in W}
                    \cup {p \in {<<a, b>> : a \in W, b \in W} : p[1].start <= p[2].start},
         diarization_segments : {<<>>} \cup {<<a>> : a \in T} \cup {<<a, b>> : a \in T, b \in T},
         segment : {s \in [start : 0..MaxSpkTime, end : 1..(MaxSpkTime + 1)] :
                       s.start < s.end}]

AssignSpeakers ==
    /\ last = NoCall
    /\ fout' = assign_speakers_to_words(fin.words, fin.diarization_segments,
                                        fin.segment.start, fin.segment.end)
    /\ last' = [sel |-> "n/a", ret |-> "words", calls |-> <<>>]
    /\ UNCHANGED <<env, clips, cursors, now, workers, fin, run>>

SpecSpeakers == PureInit(SpeakerInputs) /\ [][AssignSpeakers]_vars

(***************************************************************************)
(* moderation/content_mod.py: get_bleep_map and censor_caption_text, and   *)
(* render/renderer.py: _censor_word.  A word is the sequence of its         *)
(* characters and a text a sequence of characters, so that cleaning,       *)
(* splitting and joining are computed.  BLEEP_WORDS holds the words of the *)
(* vocabulary (lines 62-82) that the characters of the model can spell.    *)
(***************************************************************************)
MaxTextLen == 6                 \* texts have 0..MaxTextLen characters
MaxBleepTime == 3               \* word and segment times are 0..MaxBleepTime

BLEEP_WORDS == {<<"a", "s", "s">>}
BleepToken == <<"[", "B", "L", "E", "E", "P", "]">>

\* str.lower() on the characters of the model
Lower(c) ==
    CASE c = "A" -> "a"
      [] c = "S" -> "s"
      [] c = "B" -> "b"
      [] c = "L" -> "l"
      [] c = "E" -> "e"
      [] c = "P" -> "p"
      [] OTHER -> c

IsAToZ(c) == c \in {"a", "s", "b", "l", "e", "p"}

\* re.sub(r'[^a-z]', '', word.lower())
clean_word(word) ==
    SelectSeq([i \in 1..Len(word) |-> Lower(word[i])], IsAToZ)

\* a variant: the word is looked up as written
censor_word_exact(word) ==
    IF word \in BLEEP_WORDS THEN BleepToken ELSE word

\* renderer.py 105-109, and the loop body of censor_caption_text (178-181)
censor_word(word) ==
    IF clean_word(word) \in BLEEP_WORDS THEN BleepToken ELSE word

\* text.split(): the maximal runs of characters that are not whitespace
RECURSIVE SplitLoop(_, _, _, _)
SplitLoop(text, i, cur, acc) ==
    IF i > Len(text) THEN (IF cur = <<>> THEN acc ELSE Append(acc, cur))
    ELSE IF text[i] = " "
    THEN SplitLoop(text, i + 1, <<>>, IF cur = <<>> THEN acc ELSE Append(acc, cur))
    ELSE SplitLoop(text, i + 1, Append(cur, text[i]), acc)

Split(text) == SplitLoop(text, 1, <<>>, <<>>)

\* " ".join(words)
RECURSIVE Join(_)
Join(words) ==
    IF words = <<>> THEN <<>>
    ELSE IF Len(words) = 1 THEN words[1]
    ELSE words[1] \o <<" ">> \o Join(Tail(words))

\* content_mod.py 170-182
censor_caption_text(text) ==
    Join([i \in 1..Len(Split(text)) |-> censor_word(Split(text)[i])])

RECURSIVE SeqsUpTo(_, _)
SeqsUpTo(S, n) ==
    IF n = 0 THEN {<<>>}
    ELSE SeqsUpTo(S, n - 1) \cup {Append(s, c) : s \in {t \in SeqsUpTo(S, n - 1) : Len(t) = n - 1}, c \in S}

CaptionTexts == SeqsUpTo({"a", "s", "A", "!", " "}, MaxTextLen)

\* the text censored once, and the result censored again
CensorCaptionText ==
    /\ last = NoCall
    /\ fout' = [once |-> censor_caption_text(fin),
                twice |-> censor_caption_text(censor_caption_text(fin))]
    /\ last' = [sel |-> "n/a", ret |-> "text", calls |-> <<>>]
    /\ UNCHANGED <<env, clips, cursors, now, workers, fin, run>>

SpecCensor == PureInit(CaptionTexts) /\ [][CensorCaptionText]_vars

\* a variant: a word that only touches the segment counts as inside it
RECURSIVE BleepLoopInclusive(_, _, _, _)
BleepLoopInclusive(words, segment_start, segment_end, bleep_list) ==
    IF words = <<>> THEN bleep_list
    ELSE LET w == Head(words)
         IN  IF w.end < segment_start \/ w.start > segment_end
             THEN BleepLoopInclusive(Tail(words), segment_start, segment_end, bleep_list)
             ELSE IF clean_word(w.word) \in BLEEP_WORDS
             THEN BleepLoopInclusive(Tail(words), segment_start, segment_end,
                      Append(bleep_list, [start |-> w.start, end |-> w.end, word |-> w.word,
                                          replacement |-> BleepToken]))
             ELSE BleepLoopInclusive(Tail(words), segment_start, segment_end, bleep_list)

\* content_mod.py 150-162: the loop over the words
RECURSIVE BleepLoop(_, _, _, _)
BleepLoop(words, segment_start, segment_end, bleep_list) ==
    IF words = <<>> THEN bleep_list
    ELSE LET w == Head(words)
         IN  IF w.end <= segment_start \/ w.start >= segment_end
             THEN BleepLoop(Tail(words), segment_start, segment_end, bleep_list)
             ELSE IF clean_word(w.word) \in BLEEP_WORDS
             THEN BleepLoop(Tail(words), segment_start, segment_end,
                      Append(bleep_list, [start |-> w.start, end |-> w.end, word |-> w.word,
                                          replacement |-> BleepToken]))
             ELSE BleepLoop(Tail(words), segment_start, segment_end, bleep_list)

\* content_mod.py 133-167; a transcript without word timestamps has no words
get_bleep_map(transcript, segment_start, segment_end) ==
    IF transcript.words = <<>> THEN <<>>
    ELSE BleepLoop(transcript.words, segment_start, segment_end, <<>>)

BleepTokens == {<<"a", "s", "s">>, <<"A", "s", "s", "!">>, <<"a", "s">>}

\* transcripts of up to two timed words, and a segment
BleepInputs ==
    LET W == {w \in [word : BleepTokens, start : 0..MaxBleepTime, end : 0..MaxBleepTime] :
                 w.start <= w.end}
        S == {s \in [start : 0..MaxBleepTime, end : 0..MaxBleepTime] : s.start < s.end}
    IN  [transcript : [words : {<<>>} \cup {<<a>> : a \in W} \cup {<<a, b>> : a \in W, b \in W}],
         segment : S]

GetBleepMap ==
    /\ last = NoCall
    /\ fout' = get_bleep_map(fin.transcript, fin.segment.start, fin.segment.end)
    /\ last' = [sel |-> "n/a", ret |-> "list", calls |-> <<>>]
    /\ UNCHANGED <<env, clips, cursors, now, workers, fin, run>>

SpecBleepMap == PureInit(BleepInputs) /\ [][GetBleepMap]_vars

(***************************************************************************)
(* http.py: fetch_json.  The server is the sequence of its answers to the  *)
(* successive attempts: "429", "5xx", "4xx" (any other error status),      *)
(* "error" (a request error) or "ok" (a 2xx with a JSON body).             *)
(***************************************************************************)
Responses == {"429", "5xx", "4xx", "error", "ok"}

\* lines 17-44: the loop for attempt in range(retries + 1); seen lists the
\* answers received
RECURSIVE FetchLoop(_, _, _, _)
FetchLoop(responses, retries, attempt, seen) ==
    IF attempt > retries
    THEN [attempts |-> attempt, ret |-> None, seen |-> seen]
    ELSE LET resp == responses[attempt + 1]
             more == FetchLoop(responses, retries, attempt + 1, Append(seen, resp))
             stop == [attempts |-> attempt + 1, ret |-> None, seen |-> Append(seen, resp)]
         IN  CASE resp = "429" -> more
               [] resp = "5xx" -> IF attempt < retries THEN more ELSE stop
               [] resp = "4xx" -> stop
               [] resp = "error" -> IF attempt < retries THEN more ELSE stop
               [] resp = "ok" -> [stop EXCEPT !.ret = "json"]

\* line 16: retries = max_retries or settings.max_retries; None (Null here)
\* and 0 are both false
fetch_json(responses, max_retries, settings_max_retries) ==
    LET retries == IF max_retries = Null \/ max_retries = 0
                   THEN settings_max_retries ELSE max_retries
    IN  FetchLoop(responses, retries, 0, <<>>)

RECURSIVE SeqsOfLen(_, _)
SeqsOfLen(S, n) ==
    IF n = 0 THEN {<<>>} ELSE {Append(s, c) : s \in SeqsOfLen(S, n - 1), c \in S}

\* max_retries given or left out, the configured settings.max_retries, and
\* the answers to as many attempts as the loop can make
FetchJsonInputs ==
    [responses : SeqsOfLen(Responses, MaxRetries + 1),
     max_retries : {Null} \cup 0..MaxRetries,
     settings_max_retries : 0..MaxRetries]

FetchJson ==
    /\ last = NoCall
    /\ fout' = fetch_json(fin.responses, fin.max_retries, fin.settings_max_retries)
    /\ last' = [sel |-> "n/a", ret |-> fout'.ret, calls |-> fout'.seen]
    /\ UNCHANGED <<env, clips, cursors, now, workers, fin, run>>

SpecFetch == PureInit(FetchJsonInputs) /\ [][FetchJson]_vars

(***************************************************************************)
(* render/renderer.py: render_clip, what the output of a DECIDED clip is   *)
(* made with.  The transcript holds the spoken words, with their times     *)
(* when it has word timestamps and only as the text of its segment when it *)
(* has not.  The output is made by the last ffmpeg attempt that ran.       *)
(***************************************************************************)
\* lines 133-136 and 159: the words shown by the word-level captions
WordCaptionTexts(transcript, segment) ==
    [i \in 1..Len(SegWords(transcript.words, segment)) |->
        censor_word(SegWords(transcript.words, segment)[i].word)]

\* lines 174-195: the words shown by the segment-level captions
RECURSIVE SegmentCaptionTexts(_, _)
SegmentCaptionTexts(segments, segment) ==
    IF segments = <<>> THEN <<>>
    ELSE LET seg == Head(segments)
             rest == SegmentCaptionTexts(Tail(segments), segment)
         IN  IF seg.end <= segment.start \/ seg.start >= segment.end THEN rest
             ELSE [i \in 1..Len(Split(seg.text)) |-> censor_word(Split(seg.text)[i])] \o rest

\* lines 128-130: has_word_timestamps = bool(transcript.get("words"))
CaptionWordsShown(transcript, segment) ==
    IF transcript.words # <<>> THEN WordCaptionTexts(transcript, segment)
    ELSE SegmentCaptionTexts(transcript.segments, segment)

\* lines 360, 424, 504-506, 531-539: the spans muted by the audio filter of
\* an attempt, and lines 398-402, 496-499, 536: the caption words it draws
AttemptAudio(attempt, transcript, segment) ==
    IF attempt \in {"ffmpeg_full", "ffmpeg_simple"}
    THEN get_bleep_map(transcript, segment.start, segment.end)
    ELSE <<>>

AttemptCaptions(attempt, transcript, segment) ==
    IF attempt \in {"ffmpeg_full", "ffmpeg_simple"}
    THEN CaptionWordsShown(transcript, segment)
    ELSE <<>>

\* the transcript of the spoken words, with or without word timestamps
TranscriptOf(spoken, has_word_ts) ==
    [words |-> IF has_word_ts THEN spoken ELSE <<>>,
     segments |-> << [start |-> spoken[1].start,
                      end |-> Max2(spoken[1].end, spoken[Len(spoken)].end),
                      text |-> Join([i \in 1..Len(spoken) |-> spoken[i].word])] >>]

RenderBleepInputs ==
    LET W == {w \in [word : BleepTokens, start : 0..MaxBleepTime, end : 0..MaxBleepTime] :
                 w.start <= w.end}
        S == {s \in [start : 0..MaxBleepTime, end : 0..MaxBleepTime] : s.start < s.end}
    IN  [spoken : {<<a>> : a \in W}
                     \cup {p \in {<<a, b>> : a \in W, b \in W} : p[1].start <= p[2].start},
         has_word_ts : BOOLEAN,
         segment : S,
         o : {o \in RenderOutcomes : o.source_exists /\ o.decision_exists
                                        /\ o.transcript_readable}]

InitRenderBleep ==
    /\ env = [channels |-> OneClipChannels,
              llm_scores |-> {2, 3}, llm_flags |-> {""}, created_at_read |-> FALSE]
    /\ clips = <<ScoredRow(Meta("kick", "a", 1), "kc", "p1", "DECIDED", 3, 0)>>
    /\ cursors = [c \in Creators |-> Null]
    /\ now = 0
    /\ last = NoCall
    /\ workers = [w \in Workers |-> Idle]
    /\ run = NoRun
    /\ fin \in RenderBleepInputs
    /\ fout = <<>>

\* render_clip on the stored clip; fout tells what the output was made with
RenderClipBleeped ==
    /\ last = NoCall
    /\ LET r == render_finish(clips, 1, clips[1].paths, fin.o, now)
           by == r.calls[Len(r.calls)]
           transcript == TranscriptOf(fin.spoken, fin.has_word_ts)
       IN  /\ clips' = r.rows
           /\ last' = [sel |-> "n/a", ret |-> r.ret, calls |-> r.calls]
           /\ fout' = [produced_by |-> by,
                       muted |-> AttemptAudio(by, transcript, fin.segment),
                       captions |-> AttemptCaptions(by, transcript, fin.segment)]
    /\ UNCHANGED <<env, cursors, now, workers, fin, run>>

SpecRenderBleep == InitRenderBleep /\ [][RenderClipBleeped]_vars

(***************************************************************************)
(* Repeated pipeline runs on a store whose files stay as they are: fin     *)
(* tells whether the source video and the rendered video of the clips are  *)
(* on disk.  render_clip and package_clip find the files as fin says; the  *)
(* other inputs of the stages are free.  Every run invokes every stage on  *)
(* every stored clip in the stage's input status (run.py 201-240, each     *)
(* batch with LIMIT 100), which the fairness conditions state.             *)
(***************************************************************************)
Files == [source_exists : BOOLEAN, rendered_exists : BOOLEAN]

\* renderer.py 326 and packager.py 54: Path(...).exists()
OnDisk(op, o) ==
    CASE op = "render_clip"  -> o.source_exists = fin.source_exists
      [] op = "package_clip" -> o.rendered_exists = fin.rendered_exists
      [] OTHER -> TRUE

InitLive ==
    /\ env = [channels |-> SingleClipChannels,
              llm_scores |-> {2, 3}, llm_flags |-> {""}, created_at_read |-> FALSE]
    /\ clips = <<>>
    /\ cursors = [c \in Creators |-> Null]
    /\ now = 0
    /\ last = NoCall
    /\ workers = [w \in Workers |-> Idle]
    /\ run = NoRun
    /\ fin \in Files
    /\ fout = <<>>

\* one invocation of a stage entry point with the files as they are
LiveStageCall(op, clip_row_id) ==
    /\ LET sel == SelKind(clips, clip_row_id, ExpectedStatus(op))
       IN  IF sel # "match"
           THEN /\ clips' = clips
                /\ last' = [sel |-> sel, ret |-> "False", calls |-> <<>>]
           ELSE \E o \in Outcomes(op) : OnDisk(op, o) /\ StageWith(op, clip_row_id, o)
    /\ UNCHANGED <<env, cursors, now, workers, fin, fout, run>>

NextLive ==
    \/ \E p \in Profiles : discover_for_profile(p)
    \/ \E op \in Stages, id \in RowIds : LiveStageCall(op, id)
    \/ \E p \in Profiles, n \in 0..MaxTopN : select_top_clips(p, n)
    \/ Tick

\* the stages keep being invoked on every stored clip
LiveFairness ==
    /\ \A op \in Stages : \A id \in 1..MaxRows : WF_vars(LiveStageCall(op, id))
    /\ WF_vars(\E p \in Profiles, n \in 0..MaxTopN : select_top_clips(p, n))

SpecLive == InitLive /\ [][NextLive]_vars /\ LiveFairness

(***************************************************************************)
(* Repeated discover_for_profile calls against platforms that answer every *)
(* call and list all the clips of a channel, in the same order every time. *)
(* The order, and the per-creator maximum the calls are made with, are     *)
(* kept in fin.                                                            *)
(***************************************************************************)
\* the Kick channel holds two clips, the Twitch channel none
KickOnlyChannels ==
    [c \in Creators |-> IF c = "kc" THEN TwoClipChannels[c] ELSE {}]

\* the orders in which a platform can list the clips of a channel
Orderings(S) == {l \in ListsOf(S) : Len(l) = Cardinality(S)}

\* discovery/kick_api.py 12-46: what every fetch of the call is given
Served(p) ==
    [c \in Creators |->
        IF IsEnabled(c, p) THEN [raised |-> FALSE, clips |-> fin.listing[c]]
        ELSE Raised]

InitDiscoverLive ==
    /\ env = [channels |-> KickOnlyChannels,
              llm_scores |-> {2, 3}, llm_flags |-> {""}, created_at_read |-> FALSE]
    /\ clips = <<>>
    /\ cursors \in [Creators -> {Null} \cup Times]
    /\ now = 0
    /\ last = NoCall
    /\ workers = [w \in Workers |-> Idle]
    /\ run = NoRun
    /\ fin \in [max_per_creator : 1..MaxPerCreator,
               listing : [Creators -> UNION {Orderings(KickOnlyChannels[c]) : c \in Creators}]]
    /\ \A c \in Creators : fin.listing[c] \in Orderings(KickOnlyChannels[c])
    /\ fout = <<>>

\* discover_for_profile(profile_slug, max_per_creator) with every fetch served
DiscoverServed(profile_slug) ==
    \E cutoff \in CutoffInputs(profile_slug, Served(profile_slug)) :
        DiscoverStep(profile_slug, fin.max_per_creator, Served(profile_slug), cutoff)

NextDiscoverLive ==
    \/ \E p \in Profiles : DiscoverServed(p)
    \/ Tick

\* discover_for_profile keeps being called for every profile
SpecDiscoverLive ==
    InitDiscoverLive /\ [][NextDiscoverLive]_vars
        /\ \A p \in Profiles : WF_vars(DiscoverServed(p))

(***************************************************************************)
(* discover_for_profile called with given fetch results: fin holds what    *)
(* the fetch for each creator gives, the 24h cutoff and max_per_creator,   *)
(* so that a call can be told from the state before and after it.          *)
(***************************************************************************)
DiscoverCallInputs ==
    [F : FetchInputs("p1"), cutoff : Times, max_per_creator : 1..MaxPerCreator]

\* the fetch results of a call for profile p: only enabled creators are fetched
FetchedFor(p) ==
    [c \in Creators |-> IF IsEnabled(c, p) THEN fin.F[c] ELSE Raised]

InitDiscoverCall ==
    /\ env = [channels |-> TwoClipChannels,
              llm_scores |-> {2, 3}, llm_flags |-> {""}, created_at_read |-> FALSE]
    /\ clips = <<>>
    /\ cursors \in [Creators -> {Null} \cup Times]
    /\ now = 0
    /\ last = NoCall
    /\ workers = [w \in Workers |-> Idle]
    /\ run = NoRun
    /\ fin \in DiscoverCallInputs
    /\ fout = <<>>

DiscoverCall(p) == DiscoverStep(p, fin.max_per_creator, FetchedFor(p), fin.cutoff)

NextDiscoverCall ==
    \/ \E p \in Profiles : DiscoverCall(p)
    \/ Tick

SpecDiscoverCall == InitDiscoverCall /\ [][NextDiscoverCall]_vars

(***************************************************************************)
(* The properties.                                                         *)
(***************************************************************************)

C2_NoOverwrite ==
    [][LET rank == [st \in ClipStatus |->
                      CASE st = "DISCOVERED" -> 0 [] st = "DOWNLOADED" -> 1
                        [] st = "TRANSCRIBED" -> 2 [] st = "DECIDED" -> 3
                        [] st = "RENDERED" -> 4 [] st = "PACKAGED" -> 5
                        [] st = "FAILED" -> 6]
       IN  \A i \in 1..Len(clips) :
              /\ rank[clips'[i].status] >= rank[clips[i].status]
              /\ clips[i].status \in {"PACKAGED", "FAILED"}
                    => /\ clips'[i].status = clips[i].status
                       /\ clips'[i].fail_reason = clips[i].fail_reason]_vars

\* C3: a stage invoked on a clip in its expected input status that does not
\* succeed leaves the clip FAILED with a fail_reason, never in the input
\* status.
C3_FailureIsRecorded ==
    [][\A op \in Stages : \A id \in 1..Len(clips) :
          (/\ clips[id].status = ExpectedStatus(op)
           /\ StageCall(op, id)
           /\ last'.ret # "True")
             => /\ clips'[id].status = "FAILED"
                /\ clips'[id].fail_reason # None
                /\ clips'[id].fail_reason # ""]_vars

\* C4: a stage invoked on a clip that is not in its expected input status, or
\* on an id that is not stored, returns False, makes no external call and
\* leaves every row (status, fail_reason, viral_score, paths, updated_at) as
\* it was.
C4_WrongStatusIsNoOp ==
    [][\A op \in Stages : \A id \in RowIds :
          (/\ IF id \in 1..Len(clips) THEN clips[id].status # ExpectedStatus(op) ELSE TRUE
           /\ StageCall(op, id))
             => /\ clips' = clips
                /\ last'.ret = "False"
                /\ last'.calls = <<>>]_vars

\* C4 witness: a stage has just been invoked on a stored clip in another status
C4_Witness ==
    /\ last.sel = "wrong_status" /\ last.ret = "False"
    /\ \E i \in 1..Len(clips) : clips[i].status \notin {"DISCOVERED", "FAILED"}

C6_ArtifactsRecorded ==
    \A i \in 1..Len(clips) :
        LET st == clips[i].status
            has(k) == k \in clips[i].paths
        IN  /\ st \in {"DOWNLOADED", "TRANSCRIBED", "DECIDED", "RENDERED", "PACKAGED"}
                  => has("source")
            /\ st \in {"TRANSCRIBED", "DECIDED", "RENDERED", "PACKAGED"}
                  => has("transcript")
            /\ st \in {"DECIDED", "RENDERED", "PACKAGED"}
                  => has("edit_decision") /\ clips[i].viral_score # Null
            /\ st \in {"RENDERED", "PACKAGED"} => has("rendered")
            /\ st = "PACKAGED" => has("publish_pack")

\* C6 witness: a PACKAGED clip holding all five paths
C6_Witness ==
    \E i \in 1..Len(clips) : clips[i].status = "PACKAGED" /\ clips[i].paths = PathKeys

\* C7: a call of discover_for_profile returns without error, leaves every
\* stored row as it was, and afterwards every clip it was given has exactly
\* one row for its (platform, clip_id).
C7_DiscoveryIdempotent ==
    [][last'.ret = "list"
          => /\ Len(clips') >= Len(clips)
             /\ \A i \in 1..Len(clips) : clips'[i] = clips[i]
             /\ \A k \in 1..Len(last'.calls) :
                    Cardinality({i \in 1..Len(clips') :
                                    InsertCall(clips'[i]) = last'.calls[k]}) = 1]_vars

\* C7 witness: discovery was just given a clip whose row has advanced
C7_Witness ==
    /\ last.ret = "list"
    /\ \E k \in 1..Len(last.calls) : \E i \in 1..Len(clips) :
           /\ InsertCall(clips[i]) = last.calls[k]
           /\ clips[i].status \in {"DECIDED", "FAILED"}

\* C8: a creator's cursor last_fetched_at never decreases and, once stored,
\* is never removed.
C8_CursorMonotonic ==
    [][\A c \in Creators :
          cursors[c] # Null => cursors'[c] # Null /\ cursors'[c] >= cursors[c]]_vars

\* C8 witness: discovery processed a batch for a creator that has a cursor
C8_Witness ==
    /\ last.ret = "list"
    /\ \E k \in 1..Len(last.calls) : \E i \in 1..Len(clips) :
           /\ InsertCall(clips[i]) = last.calls[k]
           /\ cursors[clips[i].creator_id] # Null
           /\ clips[i].meta_created_at >= cursors[clips[i].creator_id]

\* C9: after discover_for_profile has processed a non-empty batch for a
\* creator, the creator's cursor is the maximum of its previous value and the
\* largest created_at of the batch.
C9_CursorAdvancesToMax ==
    [][\A p \in Profiles : \A m \in 1..MaxPerCreator : \A cutoff \in Times :
       \A F \in FetchInputs(p) :
          DiscoverStep(p, m, F, cutoff)
             => \A c \in Creators :
                   LET batch == FetchFor(c, F[c], cursors[c], cutoff, m)
                       largest == CHOOSE t \in {batch[i].created_at : i \in 1..Len(batch)} :
                                     \A i \in 1..Len(batch) : batch[i].created_at <= t
                   IN  (IsEnabled(c, p) /\ batch # <<>>)
                          => cursors'[c] = IF cursors[c] # Null /\ cursors[c] > largest
                                           THEN cursors[c] ELSE largest]_vars

\* C10: when a cursor exists, no candidate with created_at <= last_fetched_at
\* is handed on for insertion, whichever platform client fetched it.
C10_CursorFilter ==
    (last.ret = "list" /\ fin.last_fetched_at # Null)
        => \A i \in 1..Len(fout) :
              fout[i].created_at \in Times => fout[i].created_at > fin.last_fetched_at

\* C11: when a stage invocation is cancelled between its SELECT and its
\* UPDATE, every stored row is exactly as it was (the clip keeps its input
\* status, its paths as read, no fail_reason), so the same stage invoked
\* again finds the clip and processes it.
C11_CancelLeavesRow ==
    [][\A w \in Workers :
          (workers[w] # Idle /\ workers'[w] = Idle /\ last'.ret = "cancelled")
             => /\ clips' = clips
                /\ SelectRow(clips', workers[w].id, ExpectedStatus(workers[w].op))
                /\ clips'[workers[w].id].paths = workers[w].paths
                /\ clips'[workers[w].id].fail_reason = None]_vars

\* C11 witness: an invocation on a clip that had reached DECIDED was just cancelled
C11_Witness ==
    /\ last.ret = "cancelled"
    /\ \E i \in 1..Len(clips) : clips[i].status = "DECIDED"

\* C12: run_pipeline goes through discover, download, transcribe, decide,
\* render, top-N selection, package in that order, leaving a stage only when
\* its batch is used up; within a stage the only row that changes is the
\* head of the batch, and no row still waiting in the batch has an earlier
\* created_at.  (An exception that ends the run is C13's matter.)
C12_StagesInOrder ==
    [][LET Order == {<<"idle", "discover">>, <<"idle", "download_clip">>,
                     <<"discover", "download_clip">>,
                     <<"download_clip", "transcribe_clip">>,
                     <<"transcribe_clip", "decide_clip">>,
                     <<"decide_clip", "render_clip">>, <<"render_clip", "select">>,
                     <<"select", "package_clip">>, <<"package_clip", "done">>}
       IN  /\ run'.pc # run.pc
                => /\ <<run.pc, run'.pc>> \in Order \/ run'.pc = "crashed"
                   /\ (run.pc \in Stages /\ run'.pc # "crashed")
                         => run.selected /\ run.queue = <<>>
           /\ (run.pc \notin {"idle", "discover"}) => Len(clips') = Len(clips)
           /\ \A i \in 1..Len(clips) :
                 (clips'[i] # clips[i] /\ run.pc # "idle")
                    => \/ run.pc = "select" /\ clips[i].status = "RENDERED"
                       \/ /\ run.pc \in Stages /\ run.selected /\ run.queue # <<>>
                          /\ i = Head(run.queue)
                          /\ clips[i].status = ExpectedStatus(run.pc)
                          /\ \A k \in 1..Len(run.queue) :
                                clips[i].created_at <= clips[run.queue[k]].created_at]_vars

\* C12 witness: a run came to its end having taken two clips inserted at
\* different times through its stages, and packaged one
C12_Witness ==
    /\ run.pc = "done" /\ run.packaged # {}
    /\ Len(clips) = 2 /\ clips[1].created_at < clips[2].created_at
    /\ \A i \in 1..2 : clips[i].profile_id = run.profile /\ clips[i].status # "DISCOVERED"

\* C13: within a batch every invocation returns True or False and the loop
\* goes on with the next clip of the batch.
C13_BatchGoesOn ==
    [][(run.pc \in Stages /\ run.selected /\ run.queue # <<>> /\ run' # run)
          => /\ last'.ret \in {"True", "False"}
             /\ run'.pc = run.pc
             /\ run'.queue = Tail(run.queue)]_vars

\* C16: in one run_pipeline(profile, top_n) at most top_n clips are packaged,
\* all of the profile, and none of them has a lower viral_score than a clip
\* the run cut with cut:below_top_n.
C16_AtMostTopNPackaged ==
    run.pc \in {"package_clip", "done"}
        => /\ Cardinality(run.packaged) <= run.top_n
           /\ \A k \in run.packaged :
                 /\ clips[k].status = "PACKAGED" /\ clips[k].profile_id = run.profile
                 /\ \A c \in run.cut :
                       /\ clips[c].fail_reason = "cut:below_top_n"
                       /\ clips[k].viral_score >= clips[c].viral_score

\* C16 witness: a finished run that packaged a clip and cut a lower-scored one
C16_Witness ==
    /\ run.pc = "done"
    /\ \E k \in run.packaged : \E c \in run.cut :
           clips[k].viral_score > clips[c].viral_score

C15_SelectFrame ==
    [][\A p \in Profiles, n \in 0..MaxRows :
          select_top_clips(p, n)
             => /\ Len(clips') = Len(clips)
                /\ \A i \in 1..Len(clips) :
                      /\ clips'[i].paths = clips[i].paths
                      /\ clips'[i].viral_score = clips[i].viral_score
                      /\ [clips'[i] EXCEPT !.status = clips[i].status,
                                           !.fail_reason = clips[i].fail_reason,
                                           !.updated_at = clips[i].updated_at] = clips[i]
                      /\ clips'[i] # clips[i]
                            => /\ clips[i].status = "RENDERED" /\ clips[i].profile_id = p
                               /\ clips'[i].status = "FAILED"
                               /\ i \notin RenderedOf(clips', p)]_vars

\* C15 witness: a clip was cut, keeping its four artifacts and its score, next
\* to a RENDERED clip of the other profile and a DECIDED clip of its own
C15_Witness ==
    \E c \in 1..Len(clips) :
        /\ clips[c].fail_reason = "cut:below_top_n"
        /\ clips[c].paths = {"source", "transcript", "edit_decision", "rendered"}
        /\ clips[c].viral_score = 4
        /\ \E o \in 1..Len(clips) :
              clips[o].status = "RENDERED" /\ clips[o].profile_id # clips[c].profile_id
        /\ \E d \in 1..Len(clips) :
              clips[d].status = "DECIDED" /\ clips[d].profile_id = clips[c].profile_id

\* C17: decide_clip calls the LLM only when the transcript was found and the
\* pre-filter passed; with the transcript missing or the text rejected the
\* clip goes to FAILED and no LLM call is made.
C17_LLMAfterPrefilter ==
    [][\A id \in 1..Len(clips) : \A o \in DecideOutcomes :
          (clips[id].status = "TRANSCRIBED" /\ StageWith("decide_clip", id, o))
             => LET found == "transcript" \in clips[id].paths /\ o.transcript_exists
                IN  /\ last'.calls # <<>> => found /\ o.prefilter[1]
                    /\ (~found \/ ~o.prefilter[1])
                          => /\ clips'[id].status = "FAILED"
                             /\ clips'[id].fail_reason \in {"transcript_missing", o.prefilter[2]}
                             /\ last'.calls = <<>>]_vars

\* C17 witness: a clip failed on the pre-filter, no call made
C17_Witness ==
    /\ last.sel = "match" /\ last.calls = <<>>
    /\ \E i \in 1..Len(clips) :
          clips[i].status = "FAILED" /\ clips[i].fail_reason = "hard_reject:slur_detected"

\* C18: decide_clip gives DECIDED only on a verdict that is content-safe with
\* viral_score >= 3; an unsafe verdict gives FAILED content_unsafe:<flag>
\* whatever its score, a safe one with a score below 3 FAILED low_viral_score:<n>.
C18_VerdictFilter ==
    [][\A id \in 1..Len(clips) : \A o \in DecideOutcomes :
          (clips[id].status = "TRANSCRIBED" /\ StageWith("decide_clip", id, o))
             => LET v == o.llm_resp
                    asked == /\ "transcript" \in clips[id].paths /\ o.transcript_exists
                             /\ o.prefilter[1] /\ v.ok
                IN  /\ clips'[id].status = "DECIDED"
                          => asked /\ v.content_safe /\ v.viral_score >= 3
                    /\ (asked /\ ~v.content_safe)
                          => /\ clips'[id].status = "FAILED"
                             /\ clips'[id].fail_reason = "content_unsafe:" \o v.content_flag
                    /\ (asked /\ v.content_safe /\ v.viral_score < 3)
                          => /\ clips'[id].status = "FAILED"
                             /\ clips'[id].fail_reason
                                   = "low_viral_score:" \o ToString(v.viral_score)]_vars

\* C18 witness: a clip failed on an unsafe verdict with its flag in the reason
C18_Witness ==
    /\ last.calls = <<"llm">>
    /\ \E i \in 1..Len(clips) :
          clips[i].status = "FAILED" /\ clips[i].fail_reason = "content_unsafe:sexual_content"

\* C19: every stored viral_score is absent or an integer in 1..10.
C19_ScoreInRange ==
    \A i \in 1..Len(clips) :
        clips[i].viral_score = Null \/ clips[i].viral_score \in 1..10

\* C20: render_clip runs the full layout first, the simple layout only after
\* the full one failed, the bare one only after the simple one failed too,
\* and records FAILED render_failed exactly when all three were run and failed.
C20_RenderFallbacks ==
    [][\A id \in 1..Len(clips) : \A o \in RenderOutcomes :
          (clips[id].status = "DECIDED" /\ StageWith("render_clip", id, o))
             => LET c == last'.calls
                    ran(a) == \E k \in 1..Len(c) : c[k] = a
                    all3 == <<"ffmpeg_full", "ffmpeg_simple", "ffmpeg_bare">>
                IN  /\ c # <<>> => c[1] = "ffmpeg_full"
                    /\ ran("ffmpeg_simple") => ~o.full_ok /\ SubSeq(c, 1, 2) = SubSeq(all3, 1, 2)
                    /\ ran("ffmpeg_bare") => ~o.full_ok /\ ~o.simple_ok /\ c = all3
                    /\ (c # <<>> /\ ~o.full_ok) => ran("ffmpeg_simple")
                    /\ (c # <<>> /\ ~o.full_ok /\ ~o.simple_ok) => ran("ffmpeg_bare")
                    /\ clips'[id].fail_reason = "render_failed"
                          <=> (c = all3 /\ ~o.bare_ok)
                    /\ clips'[id].fail_reason = "render_failed"
                          => clips'[id].status = "FAILED" /\ last'.ret = "False"]_vars

\* C20 witness: a clip failed with render_failed after the three attempts
C20_Witness ==
    /\ last.calls = <<"ffmpeg_full", "ffmpeg_simple", "ffmpeg_bare">>
    /\ \E i \in 1..Len(clips) :
          clips[i].status = "FAILED" /\ clips[i].fail_reason = "render_failed"

\* C21: a clip with a download URL becomes FAILED download_failed only after
\* max_retries + 1 attempts that all failed, and DOWNLOADED when an attempt
\* succeeded (the file it wrote not being empty).
C21_FailsAfterAllRetries ==
    (last # NoCall /\ fin.download_url # "" /\ fin.file_ok)
        => /\ clips[1].status = "FAILED"
                 => /\ clips[1].fail_reason = "download_failed"
                    /\ Len(fout) = fin.max_retries + 1
                    /\ \A k \in 1..Len(fout) : fout[k] = "error"
           /\ (\E k \in 1..Len(fout) : fout[k] = "ok")
                 => clips[1].status = "DOWNLOADED"

\* C22: run_quality_gates returns the failure of the first failing gate in
\* the order hook, silence, length, and (True, "") exactly when all three pass.
C22_GateOrder ==
    last # NoCall
        => /\ fout.all = IF ~fout.hook[1] THEN fout.hook
                         ELSE IF ~fout.silence[1] THEN fout.silence
                         ELSE IF ~fout.length[1] THEN fout.length
                         ELSE <<TRUE, "">>
           /\ fout.all = <<TRUE, "">>
                 <=> (fout.hook[1] /\ fout.silence[1] /\ fout.length[1])

\* C22 witness: the hook and the silence gate both fail, the hook's reason is given
C22_Witness ==
    /\ last # NoCall
    /\ ~fout.hook[1] /\ ~fout.silence[1] /\ fout.silence[2] = "too_silent"
    /\ fout.all = <<FALSE, "no_speech_detected">>

\* C23: gate_hook rejects exactly when there is no segment (no_speech_detected)
\* or the first segment starts strictly after hook_max_delay_sec (hook_too_late).
C23_HookGate ==
    last # NoCall
        => LET segs == fin.transcript.segments
           IN  /\ segs = <<>> => fout.hook = <<FALSE, "no_speech_detected">>
               /\ (segs # <<>> /\ segs[1].start > fin.rules.hook_max_delay_sec)
                     => fout.hook = <<FALSE, "hook_too_late">>
               /\ (segs # <<>> /\ segs[1].start <= fin.rules.hook_max_delay_sec)
                     => fout.hook = <<TRUE, "">>

\* C23 witness: a first segment starting exactly at hook_max_delay_sec = 2 passed
C23_Witness ==
    /\ last # NoCall
    /\ fin.rules.hook_max_delay_sec = 2
    /\ fin.transcript.segments # <<>> /\ fin.transcript.segments[1].start = 2
    /\ fout.hook[1]

\* C24: gate_silence rejects exactly when the duration is not positive or
\* 1 - speech / duration is above silence_ratio_max + 0.001.
C24_SilenceGate ==
    last # NoCall
        => LET D == fin.transcript.duration
               S == SpeechDuration(fin.transcript.segments)
               M == fin.rules.silence_ratio_max
           IN  /\ D <= 0 => fout.silence = <<FALSE, "zero_duration">>
               /\ D > 0 => (fout.silence[1] <=> 1000 * D - 1000 * S <= M * D + D)
               /\ (D > 0 /\ 1000 * (D - S) = M * D) => fout.silence[1]
               /\ (D > 0 /\ ~fout.silence[1]) => fout.silence[2] = "too_silent"

\* C24 witness: a silence ratio of 1/3 against a maximum of 0.333 passed, being
\* within the tolerance
C24_Witness ==
    /\ last # NoCall
    /\ fin.transcript.duration = 3 /\ SpeechDuration(fin.transcript.segments) = 2
    /\ fin.rules.silence_ratio_max = 333
    /\ fout.silence[1]

C26_ProfanityLimits ==
    (last # NoCall /\ ~fin.slur /\ ~fin.gambling /\ ~fin.sexual)
        => /\ ~fout[1] <=> \/ fin.bleep_count > 8
                           \/ fin.words > 0 /\ 100 * fin.bleep_count > 12 * fin.words
           /\ fin.words = 0 => fout = <<TRUE, "">>
           /\ fout[1] => fout[2] = ""

\* C26 witness: 7 flagged words of 60 passed
C26_Witness ==
    /\ last # NoCall /\ ~fin.slur /\ ~fin.gambling /\ ~fin.sexual
    /\ fin.words = 60 /\ fin.bleep_count = 7
    /\ fout[1]

\* C27: a text matching a slur, gambling or explicit-sexual pattern is
\* rejected whatever its profanity count, with the reason of the first
\* matching category in the order slur, gambling, explicit sexual content.
C27_HardReject ==
    (last # NoCall /\ (fin.slur \/ fin.gambling \/ fin.sexual))
        => fout = <<FALSE, IF fin.slur THEN "hard_reject:slur_detected"
                           ELSE IF fin.gambling THEN "hard_reject:gambling_content"
                           ELSE "hard_reject:explicit_sexual_content">>

\* C27 witness: a text with a gambling and a sexual pattern and nine flagged
\* words of ten was rejected as gambling content
C27_Witness ==
    /\ last # NoCall
    /\ ~fin.slur /\ fin.gambling /\ fin.sexual
    /\ fin.words = 10 /\ fin.bleep_count = 9
    /\ fout = <<FALSE, "hard_reject:gambling_content">>

\* C28: in the word-level path each caption ends no later than the next one
\* starts.
C28_NoCaptionOverlap ==
    (last # NoCall /\ fin.transcript.words # <<>>)
        => \A j \in 1..(Len(fout) - 1) : fout[j].end <= fout[j + 1].start

\* C28 witness: a chunk whose padded end reached past the start of the next
\* chunk was cut at that start
C28_Witness ==
    /\ last # NoCall /\ fin.transcript.words # <<>>
    /\ \E j \in 1..(Len(fout) - 1) :
          /\ fout[j].unclamped > fout[j + 1].start
          /\ fout[j].end = fout[j + 1].start

\* C29: in the word-level path the captions are the consecutive groups of
\* max_words words of the words that overlap the edit segment, ceil(k /
\* max_words) of them; each starts at max(0, first word's start - segment
\* start) and ends, before the clamp, at last word's end - segment start + 0.15.
C29_WordChunks ==
    (last # NoCall /\ fin.transcript.words # <<>>)
        => LET S == fin.segment.start
               E == fin.segment.end
               m == fin.max_words
               W == fin.transcript.words
               idx == {i \in 1..Len(W) : W[i].end > S /\ W[i].start < E}
               k == Cardinality(idx)
               \* the i-th overlapping word
               nth(i) == W[CHOOSE x \in idx : Cardinality({y \in idx : y <= x}) = i]
           IN  /\ Len(fout) * m >= k /\ (Len(fout) - 1) * m < k
               /\ \A j \in 1..Len(fout) :
                     LET lo == (j - 1) * m + 1
                         hi == IF j * m <= k THEN j * m ELSE k
                     IN  /\ fout[j].words = [i \in 1..(hi - lo + 1) |-> nth(lo + i - 1)]
                         /\ fout[j].start = (IF nth(lo).start - S >= 0
                                             THEN nth(lo).start - S ELSE 0)
                         /\ fout[j].unclamped = nth(hi).end - S + 3

\* C29 witness: three overlapping words out of three in chunks of two gave two
\* captions, the first starting before the edit segment
C29_Witness ==
    /\ last # NoCall /\ Len(fin.transcript.words) = 3
    /\ fin.max_words = 2 /\ Len(fout) = 2
    /\ Len(fout[1].words) = 2 /\ Len(fout[2].words) = 1
    /\ fin.transcript.words[1].start < fin.segment.start
    /\ fout[1].start = 0

\* C30: without word timestamps, the captions of one transcript segment are
\* consecutive intervals of equal length from the start to the end of the
\* segment's span clipped to the edit segment, and every caption lies within
\* its transcript segment and within [0, edit segment duration].
C30_FallbackTiling ==
    (last # NoCall /\ fin.transcript.words = <<>>)
        => LET S == fin.segment.start
               E == fin.segment.end
               T == fin.transcript.segments
           IN  /\ \A j \in 1..Len(fout) :
                     LET c == fout[j]
                         sg == T[c.seg]
                         lo == IF sg.start >= S THEN sg.start ELSE S
                         hi == IF sg.end <= E THEN sg.end ELSE E
                         first == j = 1 \/ fout[j - 1].seg # c.seg
                         final == j = Len(fout) \/ fout[j + 1].seg # c.seg
                     IN  /\ 0 <= c.start /\ c.start <= c.end /\ c.end <= (E - S) * c.den
                         /\ (sg.start - S) * c.den <= c.start
                         /\ c.end <= (sg.end - S) * c.den
                         /\ first => c.start = (lo - S) * c.den
                         /\ final => c.end = (hi - S) * c.den
                         /\ ~final => /\ fout[j + 1].den = c.den
                                      /\ fout[j + 1].start = c.end
                                      /\ fout[j + 1].end - fout[j + 1].start
                                            = c.end - c.start
               /\ \A k \in 1..Len(T) :
                     (T[k].nwords > 0 /\ T[k].end > S /\ T[k].start < E)
                        => \E j \in 1..Len(fout) : fout[j].seg = k

\* C30 witness: a transcript segment reaching over both ends of the edit
\* segment gave three captions
C30_Witness ==
    /\ last # NoCall /\ fin.transcript.words = <<>>
    /\ Len(fout) = 3 /\ fout[1].den = 3 /\ fout[3].seg = 1
    /\ fin.transcript.segments[1].start < fin.segment.start
    /\ fin.transcript.segments[1].end > fin.segment.end

\* C31: a word inside the edit segment gets the speaker of the turn whose
\* overlap with it is the greatest, wherever that turn stands in the list.
C31_GreatestOverlap ==
    last # NoCall
        => \A i \in 1..Len(fin.words) :
             LET w == fin.words[i]
                 D == fin.diarization_segments
                 lo(t) == IF w.start >= D[t].start THEN w.start ELSE D[t].start
                 hi(t) == IF w.end <= D[t].end THEN w.end ELSE D[t].end
                 ov(t) == IF hi(t) - lo(t) > 0 THEN hi(t) - lo(t) ELSE 0
             IN  (w.end > fin.segment.start /\ w.start < fin.segment.end)
                    => \A t \in 1..Len(D) :
                          (ov(t) > 0 /\ \A u \in 1..Len(D) : u # t => ov(u) < ov(t))
                             => fout[i] = D[t].speaker

\* C31 witness: the turn of the greatest overlap is listed second, after
\* another speaker's turn that overlaps the word too
C31_Witness ==
    /\ last # NoCall
    /\ fin.words = <<[start |-> 0, end |-> 3]>>
    /\ fin.diarization_segments = <<[start |-> 0, end |-> 1, speaker |-> "SPEAKER_00"],
                                    [start |-> 1, end |-> 3, speaker |-> "SPEAKER_01"]>>
    /\ fin.segment = [start |-> 0, end |-> 4]
    /\ fout = <<"SPEAKER_01">>

\* C32: a word inside the edit segment whose greatest overlap is shared by
\* several turns, or which overlaps no turn, gets the speaker of a turn that
\* contains its midpoint; SPEAKER_00 when it matches no turn, and every word
\* gets SPEAKER_00 when the diarization list is empty.
C32_MidpointOnTies ==
    last # NoCall
        => \A i \in 1..Len(fin.words) :
             LET w == fin.words[i]
                 D == fin.diarization_segments
                 lo(t) == IF w.start >= D[t].start THEN w.start ELSE D[t].start
                 hi(t) == IF w.end <= D[t].end THEN w.end ELSE D[t].end
                 ov(t) == IF hi(t) - lo(t) > 0 THEN hi(t) - lo(t) ELSE 0
                 best == {t \in 1..Len(D) : \A u \in 1..Len(D) : ov(u) <= ov(t)}
                 mid == {t \in 1..Len(D) :
                            2 * D[t].start <= w.start + w.end
                               /\ w.start + w.end <= 2 * D[t].end}
                 none == \A t \in 1..Len(D) : ov(t) = 0
             IN  /\ D = <<>> => fout[i] = "SPEAKER_00"
                 /\ (D # <<>> /\ w.end > fin.segment.start /\ w.start < fin.segment.end)
                       => /\ ((none \/ Cardinality(best) >= 2) /\ mid # {})
                                => \E t \in mid : fout[i] = D[t].speaker
                          /\ (none /\ mid = {}) => fout[i] = "SPEAKER_00"

\* C33: get_bleep_map returns, in transcript order, one span with the word's
\* own start, end and text for each transcript word whose cleaned form is in
\* the bleep vocabulary and which overlaps the edit segment (end >
\* segment_start and start < segment_end), and no other span; a transcript
\* without word timestamps gives the empty list.
C33_BleepSpans ==
    last # NoCall =>
        LET ws == fin.transcript.words
            hit == {i \in 1..Len(ws) :
                       /\ clean_word(ws[i].word) \in BLEEP_WORDS
                       /\ ws[i].end > fin.segment.start
                       /\ ws[i].start < fin.segment.end}
        IN  /\ Len(fout) = Cardinality(hit)
            /\ \A k \in 1..Len(fout) :
                   \E i \in hit :
                       /\ Cardinality({j \in hit : j <= i}) = k
                       /\ fout[k].start = ws[i].start
                       /\ fout[k].end = ws[i].end
                       /\ fout[k].word = ws[i].word
            /\ (ws = <<>> => fout = <<>>)

\* two flagged words, the second only touching the end of the segment: one span
C33_Witness ==
    /\ last # NoCall
    /\ fin.segment = [start |-> 0, end |-> 2]
    /\ fin.transcript.words = << [word |-> <<"A", "s", "s", "!">>, start |-> 1, end |-> 2],
                                 [word |-> <<"a", "s", "s">>, start |-> 2, end |-> 3] >>
    /\ fout = << [start |-> 1, end |-> 2, word |-> <<"A", "s", "s", "!">>,
                  replacement |-> BleepToken] >>

\* C34: censor_caption_text replaces each whitespace-separated word whose
\* cleaned form is in the bleep vocabulary by [BLEEP] and leaves every other
\* word as it is, keeping the number and the order of the words; censoring
\* the result again changes nothing.
C34_CensorSubstitutes ==
    last # NoCall =>
        LET W == Split(fin)
            R == Split(fout.once)
        IN  /\ Len(R) = Len(W)
            /\ \A i \in 1..Len(W) :
                   R[i] = IF clean_word(W[i]) \in BLEEP_WORDS THEN BleepToken ELSE W[i]
            /\ fout.twice = fout.once

\* "Ass! a" becomes "[BLEEP] a"
C34_Witness ==
    /\ last # NoCall
    /\ fin = <<"A", "s", "s", "!", " ", "a">>
    /\ fout.once = BleepToken \o <<" ", "a">>
    /\ fout.twice = fout.once

\* C35: for every max_retries >= 0 and every sequence of answers, fetch_json
\* makes at most max_retries + 1 attempts, makes a further attempt only after
\* a 429, a 5xx or a request error, returns None at once on another error
\* status, and ends with the parsed JSON or None.
C35_BoundedAttempts ==
    (last # NoCall /\ fin.max_retries >= 0) =>
        /\ fout.attempts <= fin.max_retries + 1
        /\ \A k \in 1..(Len(fout.seen) - 1) : fout.seen[k] \in {"429", "5xx", "error"}
        /\ (fout.seen # <<>> /\ fout.seen[Len(fout.seen)] = "4xx") => fout.ret = None
        /\ fout.ret \in {"json", None}
        /\ (fout.ret = "json") <=> (fout.seen # <<>> /\ fout.seen[Len(fout.seen)] = "ok")

\* C36: a clip that reaches RENDERED was rendered with every flagged word
\* spoken inside its edit segment muted in the audio, and with no flagged
\* word shown uncensored in the captions, whichever attempt produced the
\* output and whether or not the transcript has word timestamps.
C36_RenderedIsBleeped ==
    (last # NoCall /\ clips[1].status = "RENDERED") =>
        /\ \A i \in 1..Len(fin.spoken) :
               (clean_word(fin.spoken[i].word) \in BLEEP_WORDS
                   /\ Overlaps(fin.spoken[i], fin.segment))
                  => \E k \in 1..Len(fout.muted) :
                         /\ fout.muted[k].start = fin.spoken[i].start
                         /\ fout.muted[k].end = fin.spoken[i].end
        /\ \A k \in 1..Len(fout.captions) : clean_word(fout.captions[k]) \notin BLEEP_WORDS

\* C37: every caption of the word-level path, for words in the order of their
\* starts, any chunk size and any edit segment, has 0 <= start <= end.
C37_CaptionIntervalsOrdered ==
    (last # NoCall /\ fin.transcript.words # <<>>)
        => \A j \in 1..Len(fout) : 0 <= fout[j].start /\ fout[j].start <= fout[j].end

\* C38: while the stages keep being invoked, every stored clip eventually is
\* PACKAGED or FAILED.
C38_EveryClipSettles ==
    \A i \in 1..MaxRows :
        [](Len(clips) >= i
              => <>(Len(clips) >= i /\ clips[i].status \in {"PACKAGED", "FAILED"}))

\* C39: every clip of a creator that is later than the creator's cursor (any
\* clip of a Kick creator without cursor) is eventually in the clip store,
\* also when a call finds more new clips than the per-creator maximum.
C39_NewClipsEventuallyStored ==
    \A c \in Creators : \A clip \in KickOnlyChannels[c] :
        []((IF cursors[c] = Null THEN PlatformOf(c) = "kick"
            ELSE clip.created_at > cursors[c])
              => <>(\E i \in 1..Len(clips) :
                       clips[i].platform = clip.platform /\ clips[i].clip_id = clip.clip_id))

\* C40: when the fetch for one enabled creator raises or gives no clips, a
\* call of discover_for_profile leaves that creator's cursor and rows as they
\* were, and still executes the INSERT of every clip fetched for each other
\* enabled creator, before or after it, whose clips are then in the store.
C40_FailedFetchSkipsCreator ==
    [][\A p \in Profiles :
          DiscoverCall(p)
             => \A c \in Creators :
                   (IsEnabled(c, p)
                      /\ FetchFor(c, fin.F[c], cursors[c], fin.cutoff, fin.max_per_creator) = <<>>)
                      => /\ cursors'[c] = cursors[c]
                         /\ SelectSeq(clips', LAMBDA r : r.creator_id = c)
                               = SelectSeq(clips, LAMBDA r : r.creator_id = c)
                         /\ \A d \in Creators \ {c} :
                               IsEnabled(d, p)
                                  => LET batch == FetchFor(d, fin.F[d], cursors[d], fin.cutoff,
                                                           fin.max_per_creator)
                                     IN  \A k \in 1..Len(batch) :
                                            /\ \E j \in 1..Len(last'.calls) :
                                                  last'.calls[j] = InsertCall(batch[k])
                                            /\ \E i \in 1..Len(clips') :
                                                  /\ clips'[i].platform = batch[k].platform
                                                  /\ clips'[i].clip_id = batch[k].clip_id]_vars

\* C40 witness: a call for profile p1 in which the fetch for the first
\* creator raised and the clip of the second was inserted
C40_Witness ==
    /\ fin.F["kc"].raised
    /\ Len(clips) = 1
    /\ clips[1].creator_id = "tc" /\ clips[1].profile_id = "p1"
    /\ last.calls = <<"insert:twitch:a">>

====
